---- MODULE Spec2Model ----
(***************************************************************************)
(* A model of openapi_type_picker: the Filter (src/src/filter.rs), the     *)
(* Schema Model (src/src/openapi.rs), the normalized Data Model            *)
(* (src/src/datatypes.rs), the Type Resolver and Consistency Checker       *)
(* (src/src/processing.rs) and the type expressions of the Declaration     *)
(* Emitter (src/src/writing.rs).                                           *)
(*                                                                         *)
(* Rust's Option<T> is a sequence of length at most one: None is <<>> and  *)
(* Some(x) is <<x>>. A HashMap is a function; the order in which it is     *)
(* iterated is not fixed by the program and is part of the state.          *)
(***************************************************************************)
EXTENDS Integers, Sequences, FiniteSets, TLC

VARIABLES
    schemas,        \* OpenApi.components.schemas: HashMap<String, Schema>
    filter,         \* FilterConfig
    iter,           \* iteration order of each schema's properties HashMap
    pc,             \* position of the run
    todo,           \* schema names the first loop of process_components has not visited
    datatypes,      \* process_components: datatypes
    dependencies,   \* process_components: dependencies
    depidx,         \* index of the next element of dependencies in the second loop
    result,         \* what process_components returned
    missing,        \* what find_missing_schemas returned
    call,           \* the last call of a pure function: [op, args, ret]
    out,            \* the text of the output destination, a sequence of lines
    ret             \* what generate_openapi_types returned

vars == <<schemas, filter, iter, pc, todo, datatypes, dependencies, depidx,
          result, missing, call, out, ret>>

(***************************************************************************)
(* Bounds of the model.                                                    *)
(***************************************************************************)
\* longest AcceptSelected list of a filter entry
MaxSelected == 1
\* deepest nesting of a property node (items / allOf / oneOf wrappers)
MaxDepth == 2
\* longest oneOf list of the schemas of a whole run
MaxAlternatives == 3

None == <<>>
Some(x) == <<x>>
IsSome(o) == o /= <<>>
Unwrap(o) == o[1]

Range(s) == {s[i] : i \in 1..Len(s)}

RECURSIVE SeqsOfLen(_, _)
SeqsOfLen(S, n) ==
    IF n = 0 THEN {<<>>}
    ELSE {Append(s, x) : s \in SeqsOfLen(S, n - 1), x \in S}

SeqsUpTo(S, n) == UNION {SeqsOfLen(S, k) : k \in 0..n}

\* all orders in which a HashMap with key set S can be iterated
Perms(S) == {s \in SeqsOfLen(S, Cardinality(S)) : Range(s) = S}

(***************************************************************************)
(* filter.rs                                                               *)
(***************************************************************************)
AcceptAll == [kind |-> "AcceptAll", items |-> <<"*">>]
AcceptSelected(items) == [kind |-> "AcceptSelected", items |-> items]

\* SchemaFilter::is_accepted
SchemaFilter_is_accepted_NoMatch(f, name) ==
    f.kind = "AcceptAll"
SchemaFilter_is_accepted(f, name) ==
    CASE f.kind = "AcceptAll" -> TRUE
      [] f.kind = "AcceptSelected" -> \E i \in 1..Len(f.items) : f.items[i] = name

\* get_default_struct_derives, get_default_enum_derives
get_default_struct_derives == <<"Debug", "Clone", "Deserialize">>
get_default_enum_derives ==
    <<"Debug", "Clone", "Copy", "PartialEq", "Eq", "PartialOrd", "Ord", "Deserialize">>

\* a FilterConfig that sets no derives: serde fills in the defaults
FilterConfig(inc, exc, auto) ==
    [include |-> inc, exclude |-> exc, auto_include_dependencies |-> auto,
     struct_derives |-> get_default_struct_derives,
     enum_derives |-> get_default_enum_derives]

\* FilterConfig::default
FilterConfig_default == FilterConfig(None, None, FALSE)

\* FilterConfig::is_schema_present
is_schema_present(f, schema_name) ==
    IF IsSome(f.include) THEN schema_name \in DOMAIN Unwrap(f.include)
    ELSE IF IsSome(f.exclude) THEN schema_name \in DOMAIN Unwrap(f.exclude)
    ELSE FALSE

\* FilterConfig::is_schema_accepted
is_schema_accepted_ExcludeFirst(f, schema_name) ==
    IF IsSome(f.exclude)
    THEN IF schema_name \in DOMAIN Unwrap(f.exclude)
         THEN Unwrap(f.exclude)[schema_name].kind = "AcceptSelected"
         ELSE TRUE
    ELSE IF IsSome(f.include) THEN schema_name \in DOMAIN Unwrap(f.include)
    ELSE TRUE
is_schema_accepted(f, schema_name) ==
    IF IsSome(f.include) THEN schema_name \in DOMAIN Unwrap(f.include)
    ELSE IF IsSome(f.exclude)
    THEN IF schema_name \in DOMAIN Unwrap(f.exclude)
         THEN Unwrap(f.exclude)[schema_name].kind = "AcceptSelected"
         ELSE TRUE
    ELSE TRUE

\* FilterConfig::is_property_accepted
is_property_accepted_NoAuto(f, schema_name, property_name) ==
    IF IsSome(f.include)
    THEN IF schema_name \in DOMAIN Unwrap(f.include)
         THEN SchemaFilter_is_accepted(Unwrap(f.include)[schema_name], property_name)
         ELSE FALSE
    ELSE IF IsSome(f.exclude)
    THEN IF schema_name \in DOMAIN Unwrap(f.exclude)
         THEN ~SchemaFilter_is_accepted(Unwrap(f.exclude)[schema_name], property_name)
         ELSE TRUE
    ELSE TRUE
is_property_accepted(f, schema_name, property_name) ==
    IF f.auto_include_dependencies /\ ~is_schema_present(f, schema_name)
    THEN TRUE
    ELSE IF IsSome(f.include)
    THEN IF schema_name \in DOMAIN Unwrap(f.include)
         THEN SchemaFilter_is_accepted(Unwrap(f.include)[schema_name], property_name)
         ELSE FALSE
    ELSE IF IsSome(f.exclude)
    THEN IF schema_name \in DOMAIN Unwrap(f.exclude)
         THEN ~SchemaFilter_is_accepted(Unwrap(f.exclude)[schema_name], property_name)
         ELSE TRUE
    ELSE TRUE

(***************************************************************************)
(* Strings. A name is a TLA+ string; Chars gives its characters, for the   *)
(* code that looks inside a string.                                        *)
(***************************************************************************)
Chars(s) ==
    CASE s = "" -> <<>>
      [] s = "code" -> <<"c", "o", "d", "e">>
      [] s = "url" -> <<"u", "r", "l">>
      [] s = "log_level" -> <<"l", "o", "g", "_", "l", "e", "v", "e", "l">>
      [] s = "x-id" -> <<"x", "-", "i", "d">>
      [] s = "Big" -> <<"B", "i", "g">>
      [] s = "Medium" -> <<"M", "e", "d", "i", "u", "m">>
      [] s = "Small" -> <<"S", "m", "a", "l", "l">>
      [] s = "Alert" -> <<"A", "l", "e", "r", "t">>
      [] s = "LogLevel" -> <<"L", "o", "g", "L", "e", "v", "e", "l">>
      [] s = "BigOrMedium" -> <<"B", "i", "g", "O", "r", "M", "e", "d", "i", "u", "m">>
      [] s = "UNKNOWN" -> <<"U", "N", "K", "N", "O", "W", "N">>
      [] s = "Unknown" -> <<"U", "n", "k", "n", "o", "w", "n">>
      [] s = "TRACE" -> <<"T", "R", "A", "C", "E">>
      [] s = "in_progress" -> <<"i", "n", "_", "p", "r", "o", "g", "r", "e", "s", "s">>
      [] s = "{id}" -> <<"{", "i", "d", "}">>
      [] s = "string" -> <<"s", "t", "r", "i", "n", "g">>
      [] s = "number" -> <<"n", "u", "m", "b", "e", "r">>
      [] s = "boolean" -> <<"b", "o", "o", "l", "e", "a", "n">>
      [] s = "integer" -> <<"i", "n", "t", "e", "g", "e", "r">>
      [] s = "array" -> <<"a", "r", "r", "a", "y">>
      [] s = "object" -> <<"o", "b", "j", "e", "c", "t">>
      [] s = "date" -> <<"d", "a", "t", "e">>
      [] s = "date-time" -> <<"d", "a", "t", "e", "-", "t", "i", "m", "e">>
      [] s = "float" -> <<"f", "l", "o", "a", "t">>
      [] s = "double" -> <<"d", "o", "u", "b", "l", "e">>
      [] s = "int32" -> <<"i", "n", "t", "3", "2">>
      [] s = "int64" -> <<"i", "n", "t", "6", "4">>
      [] s = "inner" -> <<"i", "n", "n", "e", "r">>
      [] s = "outer" -> <<"o", "u", "t", "e", "r">>
      [] s = "Or" -> <<"O", "r">>
      [] s = "type" -> <<"t", "y", "p", "e">>
      [] s = "String" -> <<"S", "t", "r", "i", "n", "g">>
      [] s = "f32" -> <<"f", "3", "2">>
      [] s = "f64" -> <<"f", "6", "4">>
      [] s = "bool" -> <<"b", "o", "o", "l">>
      [] s = "i32" -> <<"i", "3", "2">>
      [] s = "i64" -> <<"i", "6", "4">>
      [] s = "time::Date" -> <<"t", "i", "m", "e", ":", ":", "D", "a", "t", "e">>
      [] s = "time::OffsetDateTime" -> <<"t", "i", "m", "e", ":", ":", "O", "f", "f", "s", "e", "t", "D", "a", "t", "e", "T", "i", "m", "e">>
      [] s = "serde_json::Value" -> <<"s", "e", "r", "d", "e", "_", "j", "s", "o", "n", ":", ":", "V", "a", "l", "u", "e">>
      [] s = "_Union" -> <<"_", "U", "n", "i", "o", "n">>
      [] s = "as" -> <<"a", "s">>
      [] s = "ref" -> <<"r", "e", "f">>
      [] s = "in" -> <<"i", "n">>
      [] s = "break" -> <<"b", "r", "e", "a", "k">>
      [] s = "const" -> <<"c", "o", "n", "s", "t">>
      [] s = "continue" -> <<"c", "o", "n", "t", "i", "n", "u", "e">>
      [] s = "crate" -> <<"c", "r", "a", "t", "e">>
      [] s = "else" -> <<"e", "l", "s", "e">>
      [] s = "enum" -> <<"e", "n", "u", "m">>
      [] s = "extern" -> <<"e", "x", "t", "e", "r", "n">>
      [] s = "false" -> <<"f", "a", "l", "s", "e">>
      [] s = "fn" -> <<"f", "n">>
      [] s = "for" -> <<"f", "o", "r">>
      [] s = "if" -> <<"i", "f">>
      [] s = "impl" -> <<"i", "m", "p", "l">>
      [] s = "let" -> <<"l", "e", "t">>
      [] s = "loop" -> <<"l", "o", "o", "p">>
      [] s = "match" -> <<"m", "a", "t", "c", "h">>
      [] s = "mod" -> <<"m", "o", "d">>
      [] s = "move" -> <<"m", "o", "v", "e">>
      [] s = "mut" -> <<"m", "u", "t">>
      [] s = "pub" -> <<"p", "u", "b">>
      [] s = "return" -> <<"r", "e", "t", "u", "r", "n">>
      [] s = "self" -> <<"s", "e", "l", "f">>
      [] s = "static" -> <<"s", "t", "a", "t", "i", "c">>
      [] s = "struct" -> <<"s", "t", "r", "u", "c", "t">>
      [] s = "super" -> <<"s", "u", "p", "e", "r">>
      [] s = "trait" -> <<"t", "r", "a", "i", "t">>
      [] s = "true" -> <<"t", "r", "u", "e">>
      [] s = "unsafe" -> <<"u", "n", "s", "a", "f", "e">>
      [] s = "use" -> <<"u", "s", "e">>
      [] s = "where" -> <<"w", "h", "e", "r", "e">>
      [] s = "while" -> <<"w", "h", "i", "l", "e">>
      [] s = "async" -> <<"a", "s", "y", "n", "c">>
      [] s = "await" -> <<"a", "w", "a", "i", "t">>
      [] s = "dyn" -> <<"d", "y", "n">>

Lower == {"a", "b", "c", "d", "e", "f", "g", "h", "i", "j", "k", "l", "m",
          "n", "o", "p", "q", "r", "s", "t", "u", "v", "w", "x", "y", "z"}
Upper == {"A", "B", "C", "D", "E", "F", "G", "H", "I", "J", "K", "L", "M",
          "N", "O", "P", "Q", "R", "S", "T", "U", "V", "W", "X", "Y", "Z"}
Digit == {"0", "1", "2", "3", "4", "5", "6", "7", "8", "9"}

\* char::is_ascii_alphanumeric
is_ascii_alphanumeric(c) == c \in Lower \cup Upper \cup Digit

(***************************************************************************)
(* openapi.rs: Schema, an untagged union of Ref and Typed.                 *)
(***************************************************************************)
SchemaPrefix == "#/components/schemas/"

\* Schema::Ref { ref_ }: the reference string is its prefix and what follows it
Ref(prefix, rest) == [kind |-> "Ref", ref_ |-> [prefix |-> prefix, rest |-> rest]]
RefTo(n) == Ref(SchemaPrefix, n)

\* Schema::Typed with every field at its serde default
Typed ==
    [kind |-> "Typed", schema_type |-> "", format |-> "", nullable |-> FALSE,
     description |-> "", properties |-> None, required |-> <<>>,
     items |-> None, enum_items |-> None,
     all_of |-> None, one_of |-> None, any_of |-> None]

\* str::strip_prefix("#/components/schemas/")
strip_prefix(ref_) == IF ref_.prefix = SchemaPrefix THEN Some(ref_.rest) ELSE None

(***************************************************************************)
(* datatypes.rs                                                            *)
(***************************************************************************)
Plain(t) == [kind |-> "Plain", items |-> <<t>>]
OneOf(items) == [kind |-> "OneOf", items |-> items]

\* FieldType::to_vec
to_vec_First(type_) == <<type_.items[1]>>
to_vec(type_) == type_.items

StructField(name, type_, type_format, array_dimensions, is_nullable, descr) ==
    [name |-> name, type_ |-> type_, type_format |-> type_format,
     array_dimensions |-> array_dimensions, is_nullable |-> is_nullable,
     descr |-> descr]

Struct(name, fields) == [kind |-> "Struct", name |-> name, fields |-> fields]
Enum(name, items) == [kind |-> "Enum", name |-> name, items |-> items]
Alias(alias, info) == [kind |-> "Alias", alias |-> alias, info |-> info]

\* DataType::schema_name
schema_name_of(dt) == IF dt.kind = "Alias" THEN dt.alias ELSE dt.name

(***************************************************************************)
(* Result<T, Box<dyn Error>>, and a panic (unwrap of None, index out of    *)
(* bounds), which is neither.                                              *)
(***************************************************************************)
Ok(v) == [tag |-> "Ok", val |-> v]
Err(e) == [tag |-> "Err", err |-> e]
Panic(at) == [tag |-> "Panic", at |-> at]
IsOk(r) == r.tag = "Ok"

(***************************************************************************)
(* processing.rs: process_schema_property                                  *)
(***************************************************************************)
\* the name check of process_schema_property
is_translatable(name) ==
    \A i \in 1..Len(Chars(name)) :
        is_ascii_alphanumeric(Chars(name)[i]) \/ Chars(name)[i] = "_"

\* the two lines that merge the wrapping node into the inner field
merge_wrapper_OuterDescr(field, definition) ==
    [field EXCEPT
        !.is_nullable = @ \/ definition.nullable,
        !.descr = IF definition.description /= ""
                  THEN definition.description ELSE @]
merge_wrapper(field, definition) ==
    [field EXCEPT
        !.is_nullable = @ \/ definition.nullable,
        !.descr = IF field.descr = "" /\ definition.description /= ""
                  THEN definition.description ELSE @]

\* the primitive field (a non-empty type)
primitive_field_RequiredNotNegated(name, definition, is_required) ==
    StructField(name, Plain(definition.schema_type), definition.format, 0,
                definition.nullable \/ is_required, definition.description)
primitive_field(name, definition, is_required) ==
    StructField(name, Plain(definition.schema_type), definition.format, 0,
                definition.nullable \/ ~is_required, definition.description)

\* the field of a reference node
ref_field(name, ref_) ==
    IF IsSome(strip_prefix(ref_))
    THEN Ok(StructField(name, Plain(Unwrap(strip_prefix(ref_))), "", 0, FALSE, ""))
    ELSE Panic("strip_prefix(..).unwrap()")

\* the any-object placeholder (nothing is specified, not even type)
any_object_field_AsString(name, definition, is_required) ==
    StructField("", Plain("string"), "", 0,
                definition.nullable \/ ~is_required, definition.description)
any_object_field(name, definition, is_required) ==
    StructField("", Plain("object"), "", 0,
                definition.nullable \/ ~is_required, definition.description)

RECURSIVE process_schema_property(_, _, _, _)
RECURSIVE one_of_types(_, _, _, _, _, _)

\* the loop over the alternatives of oneOf, from alternative i on
one_of_types(schema_name, name, alts, is_required, i, types) ==
    IF i > Len(alts) THEN Ok(types)
    ELSE LET r == process_schema_property(schema_name, name, alts[i], is_required)
         IN  IF ~IsOk(r) THEN r
             ELSE one_of_types(schema_name, name, alts, is_required, i + 1,
                               types \o to_vec(r.val.type_))

process_schema_property(schema_name, name, definition, is_required) ==
    IF ~is_translatable(name) THEN Err(<<"has untranslatable name", schema_name, name>>)
    ELSE IF definition.kind = "Ref" THEN ref_field(name, definition.ref_)
    ELSE IF IsSome(definition.properties)
    THEN Err(<<"cannot be a nested object, use $ref instead", schema_name, name>>)
    ELSE IF IsSome(definition.items)
    THEN LET r == process_schema_property(schema_name, name,
                                          Unwrap(definition.items), is_required)
         IN  IF ~IsOk(r) THEN r
             ELSE Ok(merge_wrapper(
                        [r.val EXCEPT !.array_dimensions = @ + 1], definition))
    ELSE IF IsSome(definition.all_of)
    THEN LET all == Unwrap(definition.all_of)
         IN  IF Len(all) > 1 THEN Err(<<"expected one ref in allOf", schema_name, name>>)
             ELSE IF Len(all) = 0 THEN Panic("schemas[0]")
             ELSE LET r == process_schema_property(schema_name, name, all[1],
                                                   is_required)
                  IN  IF ~IsOk(r) THEN r
                      ELSE Ok(merge_wrapper(r.val, definition))
    ELSE IF IsSome(definition.one_of)
    THEN LET r == one_of_types(schema_name, name, Unwrap(definition.one_of),
                               is_required, 1, <<>>)
         IN  IF ~IsOk(r) THEN r
             ELSE Ok(StructField(name, OneOf(r.val), "", 0,
                                 definition.nullable, definition.description))
    ELSE IF IsSome(definition.any_of) THEN Err(<<"anyOf is not supported", schema_name, name>>)
    ELSE IF definition.schema_type /= ""
    THEN Ok(primitive_field(name, definition, is_required))
    ELSE Ok(any_object_field(name, definition, is_required))

(***************************************************************************)
(* processing.rs: process_schema. order is the order in which the        *)
(* schema's properties HashMap is iterated.                              *)
(***************************************************************************)
RECURSIVE struct_fields(_, _, _, _, _, _)

\* the loop over the properties, from position i of order on
struct_fields(schema_name, definition, f, order, i, fields) ==
    IF i > Len(order) THEN Ok(fields)
    ELSE IF ~is_property_accepted(f, schema_name, order[i])
    THEN struct_fields(schema_name, definition, f, order, i + 1, fields)
    ELSE LET r == process_schema_property(
                      schema_name, order[i],
                      Unwrap(definition.properties)[order[i]],
                      order[i] \in Range(definition.required))
         IN  IF ~IsOk(r) THEN r
             ELSE struct_fields(schema_name, definition, f, order, i + 1,
                                Append(fields, r.val))

process_schema_EnumFirst(schema_name, definition, f, order) ==
    IF definition.kind = "Ref" THEN Err(<<"unexpected reference in root", schema_name>>)
    ELSE IF IsSome(definition.enum_items)
    THEN Ok(Enum(schema_name, Unwrap(definition.enum_items)))
    ELSE IF IsSome(definition.properties)
    THEN LET r == struct_fields(schema_name, definition, f, order, 1, <<>>)
         IN  IF ~IsOk(r) THEN r ELSE Ok(Struct(schema_name, r.val))
    ELSE LET r == process_schema_property(schema_name, "", definition, TRUE)
         IN  IF ~IsOk(r) THEN r ELSE Ok(Alias(schema_name, r.val))
process_schema(schema_name, definition, f, order) ==
    IF definition.kind = "Ref" THEN Err(<<"unexpected reference in root", schema_name>>)
    ELSE IF IsSome(definition.properties)
    THEN LET r == struct_fields(schema_name, definition, f, order, 1, <<>>)
         IN  IF ~IsOk(r) THEN r ELSE Ok(Struct(schema_name, r.val))
    ELSE IF IsSome(definition.enum_items)
    THEN Ok(Enum(schema_name, Unwrap(definition.enum_items)))
    ELSE LET r == process_schema_property(schema_name, "", definition, TRUE)
         IN  IF ~IsOk(r) THEN r ELSE Ok(Alias(schema_name, r.val))

\* is_primitive_type
is_primitive_type(typename) ==
    typename \in {"string", "number", "boolean", "integer", "array", "object"}

(***************************************************************************)
(* processing.rs: find_dependend_schemas. The value is the dependencies    *)
(* vector as the call leaves it, or a panic of process_schema.             *)
(***************************************************************************)
RECURSIVE flatten_types(_, _)
\* the type names of fields i.. in order: for field in fields, for t in to_vec
flatten_types(fields, i) ==
    IF i > Len(fields) THEN <<>>
    ELSE to_vec(fields[i].type_) \o flatten_types(fields, i + 1)

\* the type names a DataType refers to, in the order both scans visit them
referenced_types_StructsOnly(dt) ==
    IF dt.kind = "Struct" THEN flatten_types(dt.fields, 1) ELSE <<>>
referenced_types(dt) ==
    CASE dt.kind = "Struct" -> flatten_types(dt.fields, 1)
      [] dt.kind = "Alias" -> to_vec(dt.info.type_)
      [] dt.kind = "Enum" -> <<>>

RECURSIVE find_dependend_schemas(_, _, _, _, _)
RECURSIVE walk_dependencies(_, _, _, _, _, _)
RECURSIVE push_dependencies(_, _, _)

\* a walk that pushes the new names and never descends into them
push_dependencies(types, i, deps) ==
    IF i > Len(types) THEN deps
    ELSE IF is_primitive_type(types[i]) \/ types[i] \in Range(deps)
    THEN push_dependencies(types, i + 1, deps)
    ELSE push_dependencies(types, i + 1, Append(deps, types[i]))

find_dependend_schemas_DirectOnly(schema_name, spec, f, it, deps) ==
    IF schema_name \notin DOMAIN spec THEN Ok(deps)
    ELSE LET r == process_schema(schema_name, spec[schema_name], f, it[schema_name])
         IN  IF r.tag = "Panic" THEN r
             ELSE IF r.tag = "Err" THEN Ok(deps)
             ELSE Ok(push_dependencies(referenced_types(r.val), 1, deps))

\* the loops over the type names, from position i on
walk_dependencies(types, i, spec, f, it, deps) ==
    IF i > Len(types) THEN Ok(deps)
    ELSE IF is_primitive_type(types[i]) \/ types[i] \in Range(deps)
    THEN walk_dependencies(types, i + 1, spec, f, it, deps)
    ELSE LET r == find_dependend_schemas(types[i], spec, f, it,
                                         Append(deps, types[i]))
         IN  IF ~IsOk(r) THEN r
             ELSE walk_dependencies(types, i + 1, spec, f, it, r.val)

find_dependend_schemas(schema_name, spec, f, it, deps) ==
    IF schema_name \notin DOMAIN spec THEN Ok(deps)
    ELSE LET r == process_schema(schema_name, spec[schema_name], f, it[schema_name])
         IN  IF r.tag = "Panic" THEN r
             ELSE IF r.tag = "Err" THEN Ok(deps)
             ELSE walk_dependencies(referenced_types(r.val), 1, spec, f, it, deps)

(***************************************************************************)
(* processing.rs: find_missing_schemas                                     *)
(***************************************************************************)
\* datatypes.iter().any(|dt| dt.schema_name() == t)
is_declared(dts, t) == \E i \in 1..Len(dts) : schema_name_of(dts[i]) = t

RECURSIVE dedup(_)
\* Vec::dedup: removes consecutive repeated elements
dedup(s) ==
    IF Len(s) <= 1 THEN s
    ELSE IF s[1] = s[2] THEN dedup(Tail(s))
    ELSE <<s[1]>> \o dedup(Tail(s))

RECURSIVE missing_of_types(_, _, _)
\* the names among types i.. that are pushed to missing_schemas
missing_of_types(types, i, dts) ==
    IF i > Len(types) THEN <<>>
    ELSE IF ~is_primitive_type(types[i]) /\ ~is_declared(dts, types[i])
    THEN <<types[i]>> \o missing_of_types(types, i + 1, dts)
    ELSE missing_of_types(types, i + 1, dts)

RECURSIVE missing_from(_, _)
RECURSIVE missing_from_StructsOnly(_, _)
\* the loop over the datatypes, from position k on
missing_from(dts, k) ==
    IF k > Len(dts) THEN <<>>
    ELSE missing_of_types(referenced_types(dts[k]), 1, dts) \o missing_from(dts, k + 1)

missing_from_StructsOnly(dts, k) ==
    IF k > Len(dts) THEN <<>>
    ELSE missing_of_types(referenced_types_StructsOnly(dts[k]), 1, dts)
            \o missing_from_StructsOnly(dts, k + 1)

find_missing_schemas_StructsOnly(dts) == dedup(missing_from_StructsOnly(dts, 1))
find_missing_schemas(dts) == dedup(missing_from(dts, 1))

(***************************************************************************)
(* writing.rs: the type expression of a field, a sequence of tokens.       *)
(***************************************************************************)
RECURSIVE wrap_vec(_, _)
\* for _ in 0..n { t = format!("Vec<{t}>") }
wrap_vec_Flat(t, n) == t
wrap_vec(t, n) == IF n <= 0 THEN t ELSE wrap_vec(<<"Vec<">> \o t \o <<">">>, n - 1)

\* the array and Option wrapping of a field's base type t
wrap_type(t, field) ==
    IF field.is_nullable
    THEN <<"Option<">> \o wrap_vec(t, field.array_dimensions) \o <<">">>
    ELSE wrap_vec(t, field.array_dimensions)

(***************************************************************************)
(* convert_case: Casing::to_case for Case::Pascal and Case::Snake. A text  *)
(* is the sequence of its pieces; what to_case returns is a sequence of    *)
(* characters. Words end at '_', '-' and ' ', between a lowercase and an   *)
(* uppercase letter, and before the last letter of a run of capitals that  *)
(* a lowercase letter follows. The names of the model hold no digits.      *)
(***************************************************************************)
LowerLetters == <<"a", "b", "c", "d", "e", "f", "g", "h", "i", "j", "k", "l", "m",
                  "n", "o", "p", "q", "r", "s", "t", "u", "v", "w", "x", "y", "z">>
UpperLetters == <<"A", "B", "C", "D", "E", "F", "G", "H", "I", "J", "K", "L", "M",
                  "N", "O", "P", "Q", "R", "S", "T", "U", "V", "W", "X", "Y", "Z">>

LetterIndex(letters, c) == CHOOSE i \in 1..26 : letters[i] = c

\* char::to_uppercase, char::to_lowercase
to_uppercase(c) == IF c \in Lower THEN UpperLetters[LetterIndex(LowerLetters, c)] ELSE c
to_lowercase(c) == IF c \in Upper THEN LowerLetters[LetterIndex(UpperLetters, c)] ELSE c

is_delimiter(c) == c \in {"_", "-", " "}

RECURSIVE split_words(_, _, _, _)
\* the words of cs from position i on; cur is the word being read
split_words(cs, i, cur, words) ==
    IF i > Len(cs) THEN (IF cur = <<>> THEN words ELSE Append(words, cur))
    ELSE IF is_delimiter(cs[i])
    THEN split_words(cs, i + 1, <<>>, IF cur = <<>> THEN words ELSE Append(words, cur))
    ELSE IF /\ cur /= <<>>
            /\ \/ cur[Len(cur)] \in Lower /\ cs[i] \in Upper
               \/ /\ cur[Len(cur)] \in Upper
                  /\ cs[i] \in Upper
                  /\ i < Len(cs)
                  /\ cs[i + 1] \in Lower
    THEN split_words(cs, i + 1, <<cs[i]>>, Append(words, cur))
    ELSE split_words(cs, i + 1, Append(cur, cs[i]), words)

\* one word with its first letter in upper case and the others in lower case
capital_word(w) == [k \in 1..Len(w) |-> IF k = 1 THEN to_uppercase(w[k]) ELSE to_lowercase(w[k])]
lower_word(w) == [k \in 1..Len(w) |-> to_lowercase(w[k])]

RECURSIVE join_chars(_, _, _)
\* the words from position i on, joined with sep
join_chars(ws, i, sep) ==
    IF i > Len(ws) THEN <<>>
    ELSE IF i = Len(ws) THEN ws[i]
    ELSE ws[i] \o sep \o join_chars(ws, i + 1, sep)

\* s.to_case(Case::Pascal)
to_case_Pascal(cs) ==
    LET ws == split_words(cs, 1, <<>>, <<>>)
    IN  join_chars([k \in 1..Len(ws) |-> capital_word(ws[k])], 1, <<>>)

\* s.to_case(Case::Snake)
to_case_Snake(cs) ==
    LET ws == split_words(cs, 1, <<>>, <<>>)
    IN  join_chars([k \in 1..Len(ws) |-> lower_word(ws[k])], 1, <<"_">>)

(***************************************************************************)
(* Ordering of strings (str::cmp compares bytes) and the stable sorts of   *)
(* the standard library.                                                   *)
(***************************************************************************)
\* the characters of the model in the order of their codes
AsciiOrder ==
    <<" ", "\"", "-", "0", "1", "2", "3", "4", "5", "6", "7", "8", "9", ":">>
    \o UpperLetters \o <<"\\", "_">> \o LowerLetters \o <<"{", "}">>

char_code(c) == CHOOSE i \in 1..Len(AsciiOrder) : AsciiOrder[i] = c

RECURSIVE chars_less(_, _, _)
\* a < b, comparing from position i on
chars_less(a, b, i) ==
    IF i > Len(a) THEN i <= Len(b)
    ELSE IF i > Len(b) THEN FALSE
    ELSE IF a[i] = b[i] THEN chars_less(a, b, i + 1)
    ELSE char_code(a[i]) < char_code(b[i])

\* a.cmp(b) == Ordering::Less
str_less(a, b) == chars_less(Chars(a), Chars(b), 1)

\* the place of element i after a stable sort by keys
sorted_rank(keys, i) ==
    1 + Cardinality({j \in 1..Len(keys) :
                        \/ str_less(keys[j], keys[i])
                        \/ keys[j] = keys[i] /\ j < i})

\* slice::sort_by on the keys: equal elements keep their order
stable_sort(s, keys) ==
    [k \in 1..Len(s) |-> s[CHOOSE i \in 1..Len(s) : sorted_rank(keys, i) = k]]

\* DataType::sort_fields
sort_fields(dt) ==
    CASE dt.kind = "Struct" ->
            [dt EXCEPT !.fields = stable_sort(@, [k \in 1..Len(@) |-> @[k].name])]
      [] dt.kind = "Enum" -> [dt EXCEPT !.items = stable_sort(@, @)]
      [] dt.kind = "Alias" -> dt

\* the final sort of the type list by name and of each type's members
sort_datatypes(dts) ==
    LET sorted == stable_sort(dts, [k \in 1..Len(dts) |-> schema_name_of(dts[k])])
    IN  [k \in 1..Len(sorted) |-> sort_fields(sorted[k])]

(***************************************************************************)
(* writing.rs: names and type expressions                                  *)
(***************************************************************************)
RustKeywords ==
    {"as", "break", "const", "continue", "crate", "else", "enum", "extern",
     "false", "fn", "for", "if", "impl", "in", "let", "loop", "match", "mod",
     "move", "mut", "pub", "ref", "return", "self", "static", "struct",
     "super", "trait", "true", "type", "unsafe", "use", "where", "while",
     "async", "await", "dyn"}

is_rust_keyword(cs) == \E k \in RustKeywords : cs = Chars(k)

\* fix_rust_keyword
fix_rust_keyword(cs) == IF is_rust_keyword(cs) THEN Append(cs, "_") ELSE cs

\* get_rust_type
get_rust_type(typename, format) ==
    CASE typename = "number" ->
            (CASE format = "float" -> Chars("f32")
               [] format = "double" -> Chars("f64")
               [] OTHER -> Chars("f64"))
      [] typename = "boolean" -> Chars("bool")
      [] typename = "string" ->
            (CASE format = "date" -> Chars("time::Date")
               [] format = "date-time" -> Chars("time::OffsetDateTime")
               [] OTHER -> Chars("String"))
      [] typename = "integer" ->
            (CASE format = "int32" -> Chars("i32")
               [] format = "int64" -> Chars("i64")
               [] OTHER -> Chars("i32"))
      [] typename = "object" -> Chars("serde_json::Value")
      [] OTHER -> to_case_Pascal(Chars(typename))

RECURSIVE join_names(_, _, _)
\* one_of.join(sep), from position i on
join_names(names, i, sep) ==
    IF i > Len(names) THEN <<>>
    ELSE IF i = Len(names) THEN Chars(names[i])
    ELSE Chars(names[i]) \o sep \o join_names(names, i + 1, sep)

\* generate_union_name
generate_union_name(one_of) ==
    Chars("_Union") \o to_case_Pascal(join_names(one_of, 1, Chars("Or")))

\* the type of a field before the array and Option wrapping
base_type(field) ==
    IF field.type_.kind = "Plain"
    THEN get_rust_type(field.type_.items[1], field.type_format)
    ELSE generate_union_name(field.type_.items)

\* format!("{:?}", s): the text in quotes, with quotes and backslashes escaped
RECURSIVE escape_debug(_, _)
escape_debug(cs, i) ==
    IF i > Len(cs) THEN <<>>
    ELSE (IF cs[i] \in {"\"", "\\"} THEN <<"\\", cs[i]>> ELSE <<cs[i]>>)
            \o escape_debug(cs, i + 1)

debug_str(cs) == <<"\"">> \o escape_debug(cs, 1) \o <<"\"">>

(***************************************************************************)
(* writing.rs: the emitted text, a sequence of lines. A line is the        *)
(* sequence of its pieces: fixed pieces of text, and the characters of     *)
(* every name and literal that comes from the schema.                      *)
(***************************************************************************)
Indent == "    "

\* write_comment_header
write_comment_header ==
    << <<"//! # OpenApi Types">>,
       <<"//! GENERATED AUTOMATICALLY, ALL THE CHANGES">>,
       <<"//! YOU MAKE WILL BE REWRITTEN DURING">>,
       <<"//! THE NEXT BUILD">>,
       <<>> >>

RECURSIVE join_derives(_, _)
\* derives.join(", "), from position i on
join_derives(derives, i) ==
    IF i > Len(derives) THEN <<>>
    ELSE IF i = Len(derives) THEN <<derives[i]>>
    ELSE <<derives[i], ", ">> \o join_derives(derives, i + 1)

\* the #[derive(..)] line of a declaration
derive_line(derives, default) ==
    IF IsSome(derives)
    THEN <<"#[derive(">> \o join_derives(Unwrap(derives), 1) \o <<")]">>
    ELSE <<default>>

StructDerivesDefault == "#[derive(Debug, Clone, Deserialize)]"
EnumDerivesDefault ==
    "#[derive(Debug, Clone, Copy, PartialEq, Eq, PartialOrd, Ord, Deserialize)]"

\* the case of one alternative of a union
union_case(t) ==
    <<Indent>> \o to_case_Pascal(Chars(t)) \o <<"(">> \o to_case_Pascal(Chars(t)) \o <<"),">>

\* write_union_type
write_union_type(one_of, struct_derives) ==
    << derive_line(struct_derives, StructDerivesDefault),
       <<"#[serde(untagged)]">>,
       <<"pub enum ">> \o generate_union_name(one_of) \o <<" {">> >>
    \o [k \in 1..Len(one_of) |-> union_case(one_of[k])]
    \o << <<"}">>, <<>> >>

RECURSIVE struct_helper_types(_, _, _, _)
\* the loop that generates the helper types of a struct, from field i on:
\* the helper_types vector and the lines written
struct_helper_types(fields, i, helper_types, struct_derives) ==
    IF i > Len(fields) THEN [helper_types |-> helper_types, lines |-> <<>>]
    ELSE IF fields[i].type_.kind = "Plain"
            \/ generate_union_name(fields[i].type_.items) \in Range(helper_types)
    THEN struct_helper_types(fields, i + 1, helper_types, struct_derives)
    ELSE LET rest == struct_helper_types(
                        fields, i + 1,
                        Append(helper_types, generate_union_name(fields[i].type_.items)),
                        struct_derives)
         IN  [rest EXCEPT !.lines =
                 write_union_type(fields[i].type_.items, struct_derives) \o @]

\* the lines of one struct field
field_lines(field) ==
    LET rust_name == fix_rust_keyword(to_case_Snake(Chars(field.name)))
        t == wrap_type(base_type(field), field)
    IN  (IF field.descr /= "" THEN << <<Indent, "/// ">> \o Chars(field.descr) >> ELSE <<>>)
        \o (IF Chars(field.name) /= rust_name
            THEN << <<Indent, "#[serde(rename = ">> \o debug_str(Chars(field.name)) \o <<")]">> >>
            ELSE <<>>)
        \o (IF t = Chars("time::OffsetDateTime")
            THEN << <<Indent, "#[serde(with = \"time::serde::iso8601\")]">> >>
            ELSE IF t = <<"Option<">> \o Chars("time::OffsetDateTime") \o <<">">>
            THEN << <<Indent, "#[serde(with = \"time::serde::iso8601::option\", default)]">> >>
            ELSE <<>>)
        \o << <<Indent, "pub ">> \o rust_name \o <<": ">> \o t \o <<",">> >>

RECURSIVE concat_lines(_, _)
\* the lines of blocks i.. one after the other
concat_lines(blocks, i) ==
    IF i > Len(blocks) THEN <<>> ELSE blocks[i] \o concat_lines(blocks, i + 1)

\* the struct declaration
write_struct(name, fields, struct_derives) ==
    << <<"/// ">> \o Chars(name),
       derive_line(struct_derives, StructDerivesDefault),
       <<"pub struct ">> \o to_case_Pascal(Chars(name)) \o <<" {">> >>
    \o concat_lines([k \in 1..Len(fields) |-> field_lines(fields[k])], 1)
    \o << <<"}">>, <<>> >>

\* the lines of one enum item
item_lines(item) ==
    LET rust_name == to_case_Pascal(Chars(item))
    IN  (IF rust_name /= Chars(item)
         THEN << <<Indent, "#[serde(rename = ">> \o debug_str(Chars(item)) \o <<")]">> >>
         ELSE <<>>)
        \o << <<Indent>> \o rust_name \o <<",">> >>

\* one arm of the match of the Display implementation
display_arm(enum_name, item) ==
    <<Indent, Indent, Indent>> \o enum_name \o <<"::">> \o to_case_Pascal(Chars(item))
        \o <<" => write!(f, \"">> \o Chars(item) \o <<"\"),">>

\* write_display_impl_for_enum
write_display_impl_for_enum(dt) ==
    IF dt.kind /= "Enum" THEN <<>>
    ELSE LET enum_name == to_case_Pascal(Chars(dt.name))
         IN  << <<"impl std::fmt::Display for ">> \o enum_name \o <<" {">>,
                <<Indent, "fn fmt(&self, f: &mut std::fmt::Formatter<'_>) -> std::fmt::Result {">>,
                <<Indent, Indent, "match self {">> >>
             \o [k \in 1..Len(dt.items) |-> display_arm(enum_name, dt.items[k])]
             \o << <<Indent, Indent, "}">>, <<Indent, "}">>, <<"}">>, <<>> >>

\* the enum declaration and its Display implementation
write_enum(dt, enum_derives) ==
    << <<"/// ">> \o Chars(dt.name),
       derive_line(enum_derives, EnumDerivesDefault),
       <<"pub enum ">> \o to_case_Pascal(Chars(dt.name)) \o <<" {">> >>
    \o concat_lines([k \in 1..Len(dt.items) |-> item_lines(dt.items[k])], 1)
    \o << <<"}">>, <<>> >>
    \o write_display_impl_for_enum(dt)

\* the alias declaration
write_alias(alias, info) ==
    << <<"/// ">> \o Chars(alias),
       <<"pub type ">> \o to_case_Pascal(Chars(alias)) \o <<" = ">>
           \o wrap_type(base_type(info), info) \o <<";">>,
       <<>> >>

RECURSIVE write_datatypes(_, _, _, _, _)
\* the loop of write_rust_code over the datatypes, from position i on
write_datatypes(dts, i, helper_types, struct_derives, enum_derives) ==
    IF i > Len(dts) THEN <<>>
    ELSE LET dt == dts[i]
         IN  CASE dt.kind = "Struct" ->
                    LET h == struct_helper_types(dt.fields, 1, helper_types, struct_derives)
                    IN  h.lines \o write_struct(dt.name, dt.fields, struct_derives)
                        \o write_datatypes(dts, i + 1, h.helper_types,
                                           struct_derives, enum_derives)
               [] dt.kind = "Enum" ->
                    write_enum(dt, enum_derives)
                    \o write_datatypes(dts, i + 1, helper_types,
                                       struct_derives, enum_derives)
               [] dt.kind = "Alias" ->
                    LET h == struct_helper_types(<<dt.info>>, 1, helper_types, struct_derives)
                    IN  h.lines \o write_alias(dt.alias, dt.info)
                        \o write_datatypes(dts, i + 1, h.helper_types,
                                           struct_derives, enum_derives)

\* write_rust_code
write_rust_code(dts, struct_derives, enum_derives) ==
    << <<"use serde::Deserialize;">>, <<>> >>
    \o write_datatypes(dts, 1, <<>>, struct_derives, enum_derives)

(***************************************************************************)
(* The filters the Filter's functions are applied to.                      *)
(***************************************************************************)
FilterSchemaNames == {"Big", "Medium", "Small"}
FilterKeyNames == {"Big", "Small"}
FilterPropNames == {"code", "url"}

Selectors == {AcceptAll} \cup {AcceptSelected(s) : s \in SeqsUpTo(FilterPropNames, MaxSelected)}

FilterMaps == {None} \cup
    UNION {{Some(m) : m \in [D -> Selectors]} : D \in SUBSET FilterKeyNames}

Filters == {FilterConfig(inc, exc, auto) :
                inc \in FilterMaps, exc \in FilterMaps, auto \in BOOLEAN}

NoCall == [op |-> "none", args |-> <<>>, ret |-> <<>>]

(***************************************************************************)
(* SpecFilter: a filter is drawn, and its two decisions are asked.         *)
(***************************************************************************)
InitFilter ==
    /\ filter \in Filters
    /\ schemas = <<>>
    /\ iter = <<>>
    /\ pc = "filter"
    /\ todo = {}
    /\ datatypes = <<>>
    /\ dependencies = <<>>
    /\ depidx = 1
    /\ result = None
    /\ missing = None
    /\ call = NoCall
    /\ out = <<>>
    /\ ret = None

CallIsSchemaAccepted ==
    /\ pc = "filter"
    /\ \E n \in FilterSchemaNames :
         call' = [op |-> "is_schema_accepted", args |-> <<n>>,
                  ret |-> <<is_schema_accepted(filter, n)>>]
    /\ UNCHANGED <<out, ret, schemas, filter, iter, pc, todo, datatypes, dependencies,
                   depidx, result, missing>>

CallIsPropertyAccepted ==
    /\ pc = "filter"
    /\ \E n \in FilterSchemaNames, p \in FilterPropNames :
         call' = [op |-> "is_property_accepted", args |-> <<n, p>>,
                  ret |-> <<is_property_accepted(filter, n, p)>>]
    /\ UNCHANGED <<out, ret, schemas, filter, iter, pc, todo, datatypes, dependencies,
                   depidx, result, missing>>

NextFilter == CallIsSchemaAccepted \/ CallIsPropertyAccepted

SpecFilter == InitFilter /\ [][NextFilter]_vars

(***************************************************************************)
(* The property nodes the Type Resolver is applied to: leaves, and up to   *)
(* MaxDepth wrappers (items, allOf, oneOf) around them.                    *)
(***************************************************************************)
PrimitiveNodes ==
    {[Typed EXCEPT !.schema_type = "string", !.nullable = n, !.description = d] :
        n \in BOOLEAN, d \in {"", "inner"}}

UntypedNodes == {[Typed EXCEPT !.nullable = n] : n \in BOOLEAN}

\* nodes that do not resolve
FailingNodes ==
    {[Typed EXCEPT !.any_of = Some(<<RefTo("LogLevel")>>)],
     [Typed EXCEPT !.schema_type = "object",
                   !.properties = Some("code" :> [Typed EXCEPT !.schema_type = "string"])],
     [Typed EXCEPT !.all_of = Some(<<RefTo("LogLevel"), RefTo("Big")>>)],
     [Typed EXCEPT !.all_of = Some(<<>>)],
     Ref("#/definitions/", "LogLevel")}

\* type: object without properties
ObjectNode == [Typed EXCEPT !.schema_type = "object"]

LeafNodes ==
    {RefTo("LogLevel"), RefTo("log_level"), ObjectNode}
    \cup PrimitiveNodes \cup UntypedNodes \cup FailingNodes

WrapperKinds ==
    {"items", "items nullable", "items described", "allOf", "allOf nullable",
     "oneOf first", "oneOf first nullable", "oneOf second"}

\* node x under one wrapper
Wrap(k, x) ==
    CASE k = "items" -> [Typed EXCEPT !.schema_type = "array", !.items = Some(x)]
      [] k = "items nullable" ->
            [Typed EXCEPT !.schema_type = "array", !.items = Some(x), !.nullable = TRUE]
      [] k = "items described" ->
            [Typed EXCEPT !.schema_type = "array", !.items = Some(x),
                          !.description = "outer"]
      [] k = "allOf" -> [Typed EXCEPT !.all_of = Some(<<x>>)]
      [] k = "allOf nullable" -> [Typed EXCEPT !.all_of = Some(<<x>>), !.nullable = TRUE]
      [] k = "oneOf first" -> [Typed EXCEPT !.one_of = Some(<<x, RefTo("Big")>>)]
      [] k = "oneOf first nullable" ->
            [Typed EXCEPT !.one_of = Some(<<x, RefTo("Big")>>), !.nullable = TRUE]
      [] k = "oneOf second" -> [Typed EXCEPT !.one_of = Some(<<RefTo("Big"), x>>)]

RECURSIVE NodesOfDepth(_)
NodesOfDepth(d) ==
    IF d = 0 THEN LeafNodes
    ELSE LET inner == NodesOfDepth(d - 1)
         IN  inner \cup {Wrap(k, x) : k \in WrapperKinds, x \in inner}

\* the keywords a Typed node may carry together
Keywords == {"properties", "items", "allOf", "oneOf", "anyOf", "type", "enum"}

\* the node that carries exactly the keywords ks
MixedNode(ks) ==
    [Typed EXCEPT
        !.schema_type = IF "type" \in ks THEN "string" ELSE "",
        !.format = IF "type" \in ks THEN "date-time" ELSE "",
        !.properties = IF "properties" \in ks
                       THEN Some("code" :> [Typed EXCEPT !.schema_type = "string"])
                       ELSE None,
        !.items = IF "items" \in ks THEN Some(RefTo("LogLevel")) ELSE None,
        !.enum_items = IF "enum" \in ks THEN Some(<<"UNKNOWN", "TRACE">>) ELSE None,
        !.all_of = IF "allOf" \in ks THEN Some(<<RefTo("Big")>>) ELSE None,
        !.one_of = IF "oneOf" \in ks THEN Some(<<RefTo("Big"), RefTo("Medium")>>) ELSE None,
        !.any_of = IF "anyOf" \in ks THEN Some(<<RefTo("LogLevel")>>) ELSE None]

MixedNodes == {MixedNode(ks) : ks \in SUBSET Keywords}

PropNodes == NodesOfDepth(MaxDepth) \cup MixedNodes

ResolvePropNames == {"code", "x-id"}

\* a schema with one property p, whose node is n, and the required list r
StructRoot(p, n, r) ==
    [Typed EXCEPT !.schema_type = "object", !.properties = Some(p :> n), !.required = r]

RequiredLists == {<<>>, <<"code">>, <<"url", "x-id">>}

EnumRoots ==
    {[Typed EXCEPT !.schema_type = "string",
                   !.enum_items = Some(<<"UNKNOWN", "TRACE">>)]}

PropertiesOrders(definition) ==
    IF definition.kind = "Typed" /\ IsSome(definition.properties)
    THEN Perms(DOMAIN Unwrap(definition.properties))
    ELSE {<<>>}

(***************************************************************************)
(* SpecResolve: one schema, Alert, is drawn and process_schema is applied  *)
(* to it under the default filter.                                         *)
(***************************************************************************)
InitResolve ==
    /\ \/ \E d \in EnumRoots \cup PropNodes : schemas = ("Alert" :> d)
       \/ \E p \in ResolvePropNames, n \in PropNodes, r \in RequiredLists :
             schemas = ("Alert" :> StructRoot(p, n, r))
       \/ \E u \in UntypedNodes, r \in RequiredLists :
             schemas = ("Alert" :> StructRoot("code", RefTo("LogLevel"), r))
                          @@ ("LogLevel" :> u)
    /\ iter \in [DOMAIN schemas ->
                    UNION {PropertiesOrders(schemas[n]) : n \in DOMAIN schemas}]
    /\ \A n \in DOMAIN schemas : iter[n] \in PropertiesOrders(schemas[n])
    /\ filter = FilterConfig_default
    /\ pc = "resolve"
    /\ todo = {}
    /\ datatypes = <<>>
    /\ dependencies = <<>>
    /\ depidx = 1
    /\ result = None
    /\ missing = None
    /\ call = NoCall
    /\ out = <<>>
    /\ ret = None

CallProcessSchema ==
    /\ pc = "resolve"
    /\ call.op = "none"
    /\ \E n \in DOMAIN schemas :
         call' = [op |-> "process_schema", args |-> <<n>>,
                  ret |-> <<process_schema(n, schemas[n], filter, iter[n])>>]
    /\ UNCHANGED <<out, ret, schemas, filter, iter, pc, todo, datatypes, dependencies,
                   depidx, result, missing>>

\* write_rust_code on the DataType process_schema returned
EmitResolved ==
    /\ pc = "resolve"
    /\ call.op = "process_schema"
    /\ IsOk(call.ret[1])
    /\ out' = write_rust_code(<<call.ret[1].val>>, None, None)
    /\ pc' = "emitted"
    /\ UNCHANGED <<ret, schemas, filter, iter, todo, datatypes, dependencies,
                   depidx, result, missing, call>>

\* the nodes of a schema that process_schema hands to process_schema_property:
\* its properties, or the root itself
NodesOf(definition) ==
    IF definition.kind = "Typed" /\ IsSome(definition.properties)
    THEN {Unwrap(definition.properties)[p] : p \in DOMAIN Unwrap(definition.properties)}
    ELSE {definition}

\* process_schema_property on one node, under a name and a required flag
CallProcessSchemaProperty ==
    /\ pc = "resolve"
    /\ call.op = "none"
    /\ \E n \in DOMAIN schemas :
       \E d \in NodesOf(schemas[n]), name \in ResolvePropNames \cup {""},
          is_required \in BOOLEAN :
         call' = [op |-> "process_schema_property", args |-> <<n, name, d, is_required>>,
                  ret |-> <<process_schema_property(n, name, d, is_required)>>]
    /\ UNCHANGED <<out, ret, schemas, filter, iter, pc, todo, datatypes, dependencies,
                   depidx, result, missing>>

NextResolve == CallProcessSchema \/ CallProcessSchemaProperty \/ EmitResolved

SpecResolve == InitResolve /\ [][NextResolve]_vars

(***************************************************************************)
(* The schema maps and filters of a whole run. Every schema refers to the  *)
(* schema after it and the schema before it in the cycle Big, Medium,      *)
(* Small, or to itself; a schema may also be left undefined.               *)
(***************************************************************************)
SchemaNames == {"Big", "Medium", "Small"}

NextName(n) == CASE n = "Big" -> "Medium" [] n = "Medium" -> "Small" [] n = "Small" -> "Big"
PrevName(n) == CASE n = "Big" -> "Small" [] n = "Medium" -> "Big" [] n = "Small" -> "Medium"

StringNode == [Typed EXCEPT !.schema_type = "string"]
ArrayOf(x) == [Typed EXCEPT !.schema_type = "array", !.items = Some(x)]
ObjectOf(props) == [Typed EXCEPT !.schema_type = "object", !.properties = Some(props)]

\* MaxAlternatives references, alternately to the next and the previous schema
Alternatives(n) ==
    [i \in 1..MaxAlternatives |-> IF i % 2 = 1 THEN RefTo(NextName(n)) ELSE RefTo(PrevName(n))]

RunDefs(n) ==
    {ObjectOf("code" :> StringNode),
     ObjectOf("code" :> ArrayOf(RefTo(NextName(n)))),
     ObjectOf(("code" :> [Typed EXCEPT !.one_of = Some(Alternatives(n))])
                  @@ ("url" :> RefTo(NextName(n)))),
     ObjectOf(("code" :> StringNode) @@ ("url" :> RefTo(n))),
     [Typed EXCEPT !.schema_type = "string", !.enum_items = Some(<<"UNKNOWN", "TRACE">>)],
     ArrayOf(RefTo(PrevName(n))),
     RefTo(NextName(n))}

RunChoices ==
    {c \in [SchemaNames -> {None} \cup {Some(d) : d \in UNION {RunDefs(n) : n \in SchemaNames}}] :
        /\ \A n \in SchemaNames : c[n] = None \/ Unwrap(c[n]) \in RunDefs(n)
        /\ \E n \in SchemaNames : c[n] /= None}

RunSchemaMaps ==
    {[n \in {m \in SchemaNames : c[m] /= None} |-> Unwrap(c[n])] : c \in RunChoices}

RunFilterMaps ==
    {None,
     Some("Big" :> AcceptAll),
     Some(("Big" :> AcceptAll) @@ ("Small" :> AcceptSelected(<<"code">>))),
     Some(("Big" :> AcceptSelected(<<"url">>)) @@ ("Medium" :> AcceptAll)),
     Some("Medium" :> AcceptAll),
     Some("Small" :> AcceptSelected(<<"url">>))}

\* one map alone, or include with an exclude that include overrides
RunFilters ==
    {FilterConfig(inc, None, auto) : inc \in RunFilterMaps, auto \in BOOLEAN}
    \cup {FilterConfig(None, exc, auto) : exc \in RunFilterMaps, auto \in BOOLEAN}
    \cup {FilterConfig(Some("Big" :> AcceptAll), Some("Medium" :> AcceptAll), auto) :
            auto \in BOOLEAN}

IterOrders(spec) ==
    {it \in [DOMAIN spec -> UNION {PropertiesOrders(spec[n]) : n \in DOMAIN spec}] :
        \A n \in DOMAIN spec : it[n] \in PropertiesOrders(spec[n])}

(***************************************************************************)
(* Spec: one run of process_components followed by find_missing_schemas,   *)
(* as generate_openapi_types runs them. The first loop visits the schemas  *)
(* in the iteration order of the HashMap, which is any order.              *)
(***************************************************************************)
\* the already-added test of the second loop
already_added_Never(dts, schema_name) == FALSE
already_added(dts, schema_name) ==
    \E i \in 1..Len(dts) : schema_name_of(dts[i]) = schema_name

\* what the output file holds when it exists before the run
StaleText == << <<"pub struct Stale {">>, <<"}">> >>

Init ==
    /\ schemas \in RunSchemaMaps
    /\ filter \in RunFilters
    /\ iter \in IterOrders(schemas)
    /\ pc = "create"
    /\ todo = DOMAIN schemas
    /\ datatypes = <<>>
    /\ dependencies = <<>>
    /\ depidx = 1
    /\ result = None
    /\ missing = None
    /\ call = NoCall
    /\ out \in {<<>>, StaleText}
    /\ ret = None

\* File::create(out_file)?: the file is created or truncated, or the call
\* fails and the run returns its error
CreateFile ==
    /\ pc = "create"
    /\ \/ /\ out' = <<>>
          /\ pc' = "components"
          /\ UNCHANGED ret
       \/ /\ ret' = Some(Err(<<"File::create">>))
          /\ pc' = "done"
          /\ UNCHANGED out
    /\ UNCHANGED <<schemas, filter, iter, todo, datatypes, dependencies, depidx,
                   result, missing, call>>

\* one iteration of the first loop of process_components
ProcessNextSchema ==
    /\ pc = "components"
    /\ \E n \in todo :
         /\ todo' = todo \ {n}
         /\ IF ~is_schema_accepted(filter, n)
            THEN UNCHANGED <<datatypes, dependencies, result, pc>>
            ELSE LET r == process_schema(n, schemas[n], filter, iter[n])
                     d == find_dependend_schemas(n, schemas, filter, iter, dependencies)
                 IN  IF ~IsOk(r)
                     THEN /\ result' = Some(r)
                          /\ pc' = "returned"
                          /\ UNCHANGED <<datatypes, dependencies>>
                     ELSE IF ~filter.auto_include_dependencies
                     THEN /\ datatypes' = Append(datatypes, r.val)
                          /\ UNCHANGED <<dependencies, result, pc>>
                     ELSE IF ~IsOk(d)
                     THEN /\ result' = Some(d)
                          /\ pc' = "returned"
                          /\ datatypes' = Append(datatypes, r.val)
                          /\ UNCHANGED dependencies
                     ELSE /\ datatypes' = Append(datatypes, r.val)
                          /\ dependencies' = d.val
                          /\ UNCHANGED <<result, pc>>
    /\ UNCHANGED <<out, ret, schemas, filter, iter, depidx, missing, call>>

\* one iteration of the second loop of process_components
ProcessNextDependency ==
    /\ pc = "components"
    /\ todo = {}
    /\ depidx <= Len(dependencies)
    /\ depidx' = depidx + 1
    /\ LET n == dependencies[depidx]
       IN  IF already_added(datatypes, n) \/ n \notin DOMAIN schemas
           THEN UNCHANGED <<datatypes, result, pc>>
           ELSE LET r == process_schema(n, schemas[n], filter, iter[n])
                IN  IF ~IsOk(r)
                    THEN /\ result' = Some(r)
                         /\ pc' = "returned"
                         /\ UNCHANGED datatypes
                    ELSE /\ datatypes' = Append(datatypes, r.val)
                         /\ UNCHANGED <<result, pc>>
    /\ UNCHANGED <<out, ret, schemas, filter, iter, todo, dependencies, missing, call>>

\* Ok(datatypes)
ReturnComponents ==
    /\ pc = "components"
    /\ todo = {}
    /\ depidx > Len(dependencies)
    /\ result' = Some(Ok(datatypes))
    /\ pc' = "returned"
    /\ UNCHANGED <<out, ret, schemas, filter, iter, todo, datatypes, dependencies, depidx,
                   missing, call>>

\* generate_openapi_types: find_missing_schemas(&structs)
FindMissingSchemas ==
    /\ pc = "returned"
    /\ IsOk(Unwrap(result))
    /\ missing' = Some(find_missing_schemas(Unwrap(result).val))
    /\ pc' = "checked"
    /\ UNCHANGED <<out, ret, schemas, filter, iter, todo, datatypes, dependencies, depidx,
                   result, call>>

\* process_components(..)?: its error is the error of the run
ReturnError ==
    /\ pc = "returned"
    /\ ~IsOk(Unwrap(result))
    /\ ret' = result
    /\ pc' = "done"
    /\ UNCHANGED <<out, schemas, filter, iter, todo, datatypes, dependencies,
                   depidx, result, missing, call>>

\* missing_schemas.is_empty()
missing_schemas_is_empty_Always(m) == TRUE
missing_schemas_is_empty(m) == m = <<>>

\* if !missing_schemas.is_empty() { return Err(..) }
AbortMissing ==
    /\ pc = "checked"
    /\ ~missing_schemas_is_empty(Unwrap(missing))
    /\ ret' = Some(Err(<<"Found reference to missing schemas", Unwrap(missing)>>))
    /\ pc' = "done"
    /\ UNCHANGED <<out, schemas, filter, iter, todo, datatypes, dependencies,
                   depidx, result, missing, call>>

\* the sort of the type list and of each type's members before emission
SortDataTypes ==
    /\ pc = "checked"
    /\ missing_schemas_is_empty(Unwrap(missing))
    /\ result' = Some(Ok(sort_datatypes(Unwrap(result).val)))
    /\ pc' = "sorted"
    /\ UNCHANGED <<out, ret, schemas, filter, iter, todo, datatypes, dependencies,
                   depidx, missing, call>>

\* write_comment_header(&mut file)?; write_rust_code(&mut file, ..)?; Ok(())
WriteOutput ==
    /\ pc = "sorted"
    /\ out' = out \o write_comment_header
                  \o write_rust_code(Unwrap(result).val,
                                     Some(filter.struct_derives),
                                     Some(filter.enum_derives))
    /\ ret' = Some(Ok(<<>>))
    /\ pc' = "done"
    /\ UNCHANGED <<schemas, filter, iter, todo, datatypes, dependencies, depidx,
                   result, missing, call>>

Next ==
    \/ CreateFile
    \/ ProcessNextSchema
    \/ ProcessNextDependency
    \/ ReturnComponents
    \/ ReturnError
    \/ FindMissingSchemas
    \/ AbortMissing
    \/ SortDataTypes
    \/ WriteOutput

Spec == Init /\ [][Next]_vars

(***************************************************************************)
(* SpecWalk: the dependency walk of a run with auto-include, one step of   *)
(* find_dependend_schemas at a time. call.args is the stack of its calls,  *)
(* the innermost last; call.ret lists the names it was called with from    *)
(* inside itself, in the order of the calls.                               *)
(***************************************************************************)
\* dependencies.contains(&t)
dependencies_contains_LastOnly(deps, t) == deps /= <<>> /\ deps[Len(deps)] = t
dependencies_contains(deps, t) == t \in Range(deps)

\* the type names a call for schema_name loops over: those of its Struct
\* or Alias, none for a name without a schema or a schema that fails
walk_types(schema_name, spec, f, it) ==
    IF schema_name \notin DOMAIN spec THEN Ok(<<>>)
    ELSE LET r == process_schema(schema_name, spec[schema_name], f, it[schema_name])
         IN  IF r.tag = "Panic" THEN r
             ELSE IF r.tag = "Err" THEN Ok(<<>>)
             ELSE Ok(referenced_types(r.val))

\* a call of find_dependend_schemas at position i of its loops
Frame(schema_name, types) == [schema_name |-> schema_name, types |-> types, i |-> 1]

\* auto-include with every schema accepted, and with Big alone accepted
WalkFilters == {FilterConfig(inc, None, TRUE) : inc \in {None, Some("Big" :> AcceptAll)}}

\* the schemas of the walk refer to other schemas: a struct with a union and
\* a reference, a struct that refers to itself, an alias of an array, and
\* a root reference, which fails to resolve
WalkDefs(n) ==
    {ObjectOf(("code" :> [Typed EXCEPT !.one_of = Some(Alternatives(n))])
                  @@ ("url" :> RefTo(NextName(n)))),
     ObjectOf(("code" :> StringNode) @@ ("url" :> RefTo(n))),
     ArrayOf(RefTo(PrevName(n))),
     RefTo(NextName(n))}

\* Big is always there, Medium and Small may be missing
WalkSchemaMaps ==
    {m \in RunSchemaMaps :
        /\ "Big" \in DOMAIN m
        /\ \A n \in DOMAIN m : m[n] \in WalkDefs(n)
        /\ "Small" \in DOMAIN m => m["Small"].kind = "Typed" /\ m["Small"].schema_type = "array"}

InitWalk ==
    /\ schemas \in WalkSchemaMaps
    /\ iter \in IterOrders(schemas)
    /\ filter \in WalkFilters
    /\ pc = "walk"
    /\ todo = {n \in DOMAIN schemas : is_schema_accepted(filter, n)}
    /\ datatypes = <<>>
    /\ dependencies = <<>>
    /\ depidx = 1
    /\ result = None
    /\ missing = None
    /\ call = [op |-> "find_dependend_schemas", args |-> <<>>, ret |-> <<>>]
    /\ out = <<>>
    /\ ret = None

\* the first loop of process_components takes the next accepted schema: it
\* returns the error of a schema that fails, and walks one that resolves
StartWalk ==
    /\ pc = "walk"
    /\ call.args = <<>>
    /\ \E n \in todo :
         LET r == process_schema(n, schemas[n], filter, iter[n])
         IN  IF ~IsOk(r)
             THEN /\ result' = Some(r)
                  /\ pc' = "done"
                  /\ UNCHANGED <<todo, call, datatypes>>
             ELSE /\ todo' = todo \ {n}
                  /\ datatypes' = Append(datatypes, r.val)
                  /\ call' = [call EXCEPT !.args = <<Frame(n, referenced_types(r.val))>>]
                  /\ UNCHANGED <<result, pc>>
    /\ UNCHANGED <<out, ret, schemas, filter, iter, dependencies, depidx, missing>>

\* the innermost call, and the type name its loops are at
TopFrame == call.args[Len(call.args)]
TopType == TopFrame.types[TopFrame.i]

\* a primitive type, or a name the work-list already has: next type
SkipType ==
    /\ pc = "walk"
    /\ call.args /= <<>>
    /\ TopFrame.i <= Len(TopFrame.types)
    /\ is_primitive_type(TopType) \/ dependencies_contains(dependencies, TopType)
    /\ call' = [call EXCEPT !.args[Len(call.args)].i = @ + 1]
    /\ UNCHANGED <<out, ret, schemas, filter, iter, pc, todo, datatypes, dependencies,
                   depidx, result, missing>>

\* a new name: it is pushed to the work-list and find_dependend_schemas is
\* called with it
Recurse ==
    /\ pc = "walk"
    /\ call.args /= <<>>
    /\ TopFrame.i <= Len(TopFrame.types)
    /\ ~is_primitive_type(TopType)
    /\ ~dependencies_contains(dependencies, TopType)
    /\ dependencies' = Append(dependencies, TopType)
    /\ LET types == walk_types(TopType, schemas, filter, iter)
       IN  IF ~IsOk(types)
           THEN /\ result' = Some(types)
                /\ pc' = "done"
                /\ UNCHANGED call
           ELSE /\ call' = [call EXCEPT
                              !.args = Append([@ EXCEPT ![Len(@)].i = @ + 1],
                                              Frame(TopType, types.val)),
                              !.ret = Append(@, TopType)]
                /\ UNCHANGED <<result, pc>>
    /\ UNCHANGED <<out, ret, schemas, filter, iter, todo, datatypes, depidx, missing>>

\* the loops of the innermost call are over: it returns
ReturnWalk ==
    /\ pc = "walk"
    /\ call.args /= <<>>
    /\ TopFrame.i > Len(TopFrame.types)
    /\ call' = [call EXCEPT !.args = SubSeq(@, 1, Len(@) - 1)]
    /\ UNCHANGED <<out, ret, schemas, filter, iter, pc, todo, datatypes, dependencies,
                   depidx, result, missing>>

\* every accepted schema is walked: the first loop is over
FinishWalk ==
    /\ pc = "walk"
    /\ call.args = <<>>
    /\ todo = {}
    /\ pc' = "done"
    /\ UNCHANGED <<out, ret, schemas, filter, iter, todo, datatypes, dependencies,
                   depidx, result, missing, call>>

NextWalk == StartWalk \/ SkipType \/ Recurse \/ ReturnWalk \/ FinishWalk

\* the run goes on while it can
SpecWalk == InitWalk /\ [][NextWalk]_vars /\ WF_vars(NextWalk)

(***************************************************************************)
(* SpecEmit: a list of DataTypes is drawn and write_rust_code is applied   *)
(* to it. The list holds a struct named Alert and a second type named      *)
(* Small, in either order.                                                 *)
(***************************************************************************)
\* longest list of items of an enum
MaxItems == 2

EmitUnionLists ==
    {<<"Big", "Medium">>, <<"Medium", "Big">>, <<"BigOrMedium">>, <<"number", "Big">>}

\* type and format of a field
EmitTypes ==
    {[type_ |-> OneOf(l), format |-> ""] : l \in EmitUnionLists}
    \cup {[type_ |-> Plain(t), format |-> ""] : t \in {"string", "Small", "object", "array"}}
    \cup {[type_ |-> Plain("string"), format |-> "date-time"]}

\* array_dimensions and is_nullable of a field
EmitWraps == {<<0, FALSE>>, <<0, TRUE>>, <<1, FALSE>>}

EmitField(name, t, w) == StructField(name, t.type_, t.format, w[1], w[2], "")

EmitItems == {"UNKNOWN", "Unknown", "in_progress", "{id}", "Big"}

EmitStructs(name) ==
    {Struct(name, <<>>)}
    \cup {Struct(name, <<EmitField("code", t, w)>>) : t \in EmitTypes, w \in EmitWraps}
    \cup {Struct(name, <<EmitField("code", t, w),
                          EmitField("log_level", [type_ |-> OneOf(l), format |-> ""],
                                    <<0, FALSE>>)>>) :
            t \in EmitTypes, w \in EmitWraps, l \in EmitUnionLists}

EmitSeconds(name) ==
    {Struct(name, <<EmitField("type", [type_ |-> OneOf(l), format |-> ""], w)>>) :
        l \in EmitUnionLists, w \in EmitWraps}
    \cup {Alias(name, EmitField("", t, w)) : t \in EmitTypes, w \in EmitWraps}
    \cup {Enum(name, items) : items \in SeqsUpTo(EmitItems, MaxItems)}

\* the derives write_rust_code is called with
EmitDerives == {None, Some(<<"Debug", "PartialEq">>)}

InitEmit ==
    /\ \E a \in EmitStructs("Alert"), b \in EmitSeconds("Small") :
          datatypes \in {<<a, b>>, <<b, a>>}
    /\ schemas = <<>>
    /\ iter = <<>>
    /\ filter = FilterConfig_default
    /\ pc = "emit"
    /\ todo = {}
    /\ dependencies = <<>>
    /\ depidx = 1
    /\ result = None
    /\ missing = None
    /\ call = NoCall
    /\ out = <<>>
    /\ ret = None

CallWriteRustCode ==
    /\ pc = "emit"
    /\ \E d \in EmitDerives :
          /\ out' = write_rust_code(datatypes, d, d)
          /\ call' = [op |-> "write_rust_code", args |-> <<d, d>>, ret |-> <<>>]
    /\ pc' = "emitted"
    /\ UNCHANGED <<ret, schemas, filter, iter, todo, datatypes, dependencies,
                   depidx, result, missing>>

NextEmit == CallWriteRustCode

SpecEmit == InitEmit /\ [][NextEmit]_vars

(***************************************************************************)
(* Claims about the Filter (SpecFilter).                                   *)
(***************************************************************************)
\* the map the filter consults: include when present, else exclude
ActiveMap(f) ==
    IF IsSome(f.include) THEN f.include
    ELSE IF IsSome(f.exclude) THEN f.exclude
    ELSE None

InActiveMap(f, n) == IsSome(ActiveMap(f)) /\ n \in DOMAIN Unwrap(ActiveMap(f))

SelectorHas(sel, p) == sel.kind = "AcceptAll" \/ p \in Range(sel.items)

\* the allow-list / deny-list decision, as the specification words it
SelectionOf(f, n, p) ==
    IF IsSome(f.include)
    THEN n \in DOMAIN Unwrap(f.include) /\ SelectorHas(Unwrap(f.include)[n], p)
    ELSE IF IsSome(f.exclude)
    THEN \/ n \notin DOMAIN Unwrap(f.exclude)
         \/ /\ Unwrap(f.exclude)[n].kind = "AcceptSelected"
            /\ p \notin Range(Unwrap(f.exclude)[n].items)
    ELSE TRUE

\* C6: with auto_include_dependencies, is_property_accepted is true for every
\* property of a schema that is not a key of the active filter map, and a
\* schema that is a key keeps its own property selection.
C6_AutoIncludeAcceptsUnmentioned ==
    (call.op = "is_property_accepted" /\ filter.auto_include_dependencies) =>
        IF InActiveMap(filter, call.args[1])
        THEN call.ret[1] = SelectionOf(filter, call.args[1], call.args[2])
        ELSE call.ret[1] = TRUE

\* C6 witness: an allow-list that does not mention Medium, auto-include on,
\* and a property of Medium is accepted.
C6_Witness ==
    /\ call.op = "is_property_accepted"
    /\ filter.auto_include_dependencies
    /\ IsSome(filter.include)
    /\ DOMAIN Unwrap(filter.include) = {"Big", "Small"}
    /\ Unwrap(filter.include)["Small"] = AcceptSelected(<<"code">>)
    /\ call.args = <<"Medium", "url">>
    /\ call.ret[1] = TRUE

\* C8: is_schema_accepted(name) is true iff include is present and has the
\* key, or include is absent and exclude is present and name is not a key of
\* exclude or is listed with an explicit property set, or neither is present;
\* it does not depend on auto_include_dependencies.
C8_SchemaAccepted ==
    call.op = "is_schema_accepted" =>
        LET n == call.args[1]
            inc == filter.include
            exc == filter.exclude
        IN  /\ call.ret[1] <=>
                 \/ IsSome(inc) /\ n \in DOMAIN Unwrap(inc)
                 \/ /\ ~IsSome(inc)
                    /\ IsSome(exc)
                    /\ \/ n \notin DOMAIN Unwrap(exc)
                       \/ Unwrap(exc)[n].kind = "AcceptSelected"
                 \/ ~IsSome(inc) /\ ~IsSome(exc)
            /\ call.ret[1] = is_schema_accepted(
                   [filter EXCEPT !.auto_include_dependencies = ~@], n)

\* C8 witness: include and exclude both present, the name is a key of include
\* and excluded with all its properties, and the schema is accepted.
C8_Witness ==
    /\ call.op = "is_schema_accepted"
    /\ IsSome(filter.include)
    /\ IsSome(filter.exclude)
    /\ call.args[1] \in DOMAIN Unwrap(filter.include)
    /\ call.args[1] \in DOMAIN Unwrap(filter.exclude)
    /\ Unwrap(filter.exclude)[call.args[1]] = AcceptAll
    /\ call.ret[1] = TRUE

\* C9: without auto_include_dependencies, is_property_accepted is the
\* allow-list decision when include is present (only include is consulted),
\* the complement of the listed set when only exclude is present, and true
\* when neither is present.
C9_PropertyAccepted ==
    (call.op = "is_property_accepted" /\ ~filter.auto_include_dependencies) =>
        call.ret[1] = SelectionOf(filter, call.args[1], call.args[2])

\* C9 witness: deny-list mode, the schema is listed with an explicit set that
\* does not contain the property, and the property is accepted.
C9_Witness ==
    /\ call.op = "is_property_accepted"
    /\ ~filter.auto_include_dependencies
    /\ ~IsSome(filter.include)
    /\ IsSome(filter.exclude)
    /\ call.args[1] \in DOMAIN Unwrap(filter.exclude)
    /\ Unwrap(filter.exclude)[call.args[1]] = AcceptSelected(<<"code">>)
    /\ call.args[2] = "url"
    /\ call.ret[1] = TRUE

(***************************************************************************)
(* Claims about required and nullable (SpecResolve).                       *)
(***************************************************************************)
ResolvedStruct ==
    /\ call.op = "process_schema"
    /\ IsOk(call.ret[1])
    /\ call.ret[1].val.kind = "Struct"

\* Under the default filter every property is accepted, so field i of the
\* resolved struct comes from the i-th property in iteration order.
PropertyOfField(i) == iter[call.args[1]][i]
NodeOfField(i) == Unwrap(schemas[call.args[1]].properties)[PropertyOfField(i)]
IsRequired(i) == PropertyOfField(i) \in Range(schemas[call.args[1]].required)

BaseTypes == {<<"String">>, <<"LogLevel">>}

IsOptionType(t) == Len(t) > 0 /\ t[1] = "Option<"

\* C1: a property absent from required resolves to a nullable Field whose
\* emitted type is wrapped in Option, whatever the shape of its node.
C1_NotRequiredIsOptional ==
    ResolvedStruct =>
        \A i \in 1..Len(call.ret[1].val.fields) :
            ~IsRequired(i) =>
                /\ call.ret[1].val.fields[i].is_nullable
                /\ \A t \in BaseTypes :
                       IsOptionType(wrap_type(t, call.ret[1].val.fields[i]))

RECURSIVE NoNullable(_)
\* neither the node nor a node nested in it under items or allOf sets nullable
NoNullable(node) ==
    \/ node.kind = "Ref"
    \/ /\ ~node.nullable
       /\ IsSome(node.items) => NoNullable(Unwrap(node.items))
       /\ IsSome(node.all_of) =>
              \A k \in 1..Len(Unwrap(node.all_of)) : NoNullable(Unwrap(node.all_of)[k])

\* C2: a property listed in required, with nullable set nowhere in its node,
\* resolves to a Field that is not nullable and is emitted without Option.
C2_RequiredIsNotOptional ==
    ResolvedStruct =>
        \A i \in 1..Len(call.ret[1].val.fields) :
            (IsRequired(i) /\ NoNullable(NodeOfField(i))) =>
                /\ ~call.ret[1].val.fields[i].is_nullable
                /\ \A t \in BaseTypes :
                       ~IsOptionType(wrap_type(t, call.ret[1].val.fields[i]))

\* C2 witness: a required array of strings resolved to a non-nullable field.
C2_Witness ==
    /\ ResolvedStruct
    /\ Len(call.ret[1].val.fields) = 1
    /\ IsRequired(1)
    /\ NoNullable(NodeOfField(1))
    /\ NodeOfField(1).kind = "Typed"
    /\ IsSome(NodeOfField(1).items)
    /\ call.ret[1].val.fields[1].type_ = Plain("string")
    /\ call.ret[1].val.fields[1].array_dimensions = 1
    /\ ~call.ret[1].val.fields[1].is_nullable

(***************************************************************************)
(* Claims about a whole run (Spec).                                        *)
(***************************************************************************)
Returned == pc \in {"returned", "checked"} /\ IsOk(Unwrap(result))
Checked == pc = "checked"

\* the list process_components returned
ReturnedList == Unwrap(result).val

PrimitiveKeywords == {"string", "number", "boolean", "integer", "array", "object"}

NamesOf(L) == {schema_name_of(L[i]) : i \in 1..Len(L)}

\* the alternatives of the type of every Struct field or Alias target of dt
AlternativesOf(dt) ==
    IF dt.kind = "Struct"
    THEN UNION {Range(dt.fields[k].type_.items) : k \in 1..Len(dt.fields)}
    ELSE IF dt.kind = "Alias" THEN Range(dt.info.type_.items)
    ELSE {}

ReferencedIn(L) == UNION {AlternativesOf(L[i]) : i \in 1..Len(L)}

\* C3: find_missing_schemas returns exactly the referenced names that are
\* neither primitive keywords nor names of a DataType of the list, and the
\* empty list iff every referenced non-primitive name is declared.
C3_MissingAreExactlyUnresolved ==
    Checked =>
        /\ Range(Unwrap(missing)) =
              {t \in ReferencedIn(ReturnedList) :
                  t \notin PrimitiveKeywords /\ t \notin NamesOf(ReturnedList)}
        /\ (Unwrap(missing) = <<>>) <=>
              \A t \in ReferencedIn(ReturnedList) :
                  t \in PrimitiveKeywords \/ t \in NamesOf(ReturnedList)

\* C3 witness: Big and a partial Small are included, Medium is not, there is
\* no auto-include, and exactly Medium is reported.
C3_Witness ==
    /\ Checked
    /\ ~filter.auto_include_dependencies
    /\ filter.include = Some(("Big" :> AcceptAll) @@ ("Small" :> AcceptSelected(<<"code">>)))
    /\ NamesOf(ReturnedList) = {"Big", "Small"}
    /\ "Medium" \in DOMAIN schemas
    /\ Unwrap(missing) = <<"Medium">>

RECURSIVE ScanOrder(_, _)
\* every referenced name in the order the scan of the list meets it
ScanOrder(L, k) ==
    IF k > Len(L) THEN <<>>
    ELSE (IF L[k].kind = "Struct" THEN flatten_types(L[k].fields, 1)
          ELSE IF L[k].kind = "Alias" THEN L[k].info.type_.items
          ELSE <<>>) \o ScanOrder(L, k + 1)

FirstIndex(s, x) == CHOOSE i \in 1..Len(s) : s[i] = x /\ \A j \in 1..(i - 1) : s[j] /= x

\* C4: the list of missing names holds no name twice, in first-seen order.
C4_MissingDeduplicated ==
    Checked =>
        LET m == Unwrap(missing)
            scan == ScanOrder(ReturnedList, 1)
        IN  /\ \A i, j \in 1..Len(m) : i /= j => m[i] /= m[j]
            /\ \A i, j \in 1..Len(m) :
                  i < j => FirstIndex(scan, m[i]) <= FirstIndex(scan, m[j])

\* the non-primitive names the DataType named n of L refers to
RefsOf(L, n) ==
    UNION {AlternativesOf(L[i]) : i \in {k \in 1..Len(L) : schema_name_of(L[k]) = n}}
        \ PrimitiveKeywords

RECURSIVE ReachVia(_, _)
\* the names reachable from S through the resolved types of L
ReachVia(L, S) ==
    LET S2 == S \cup UNION {RefsOf(L, n) : n \in S}
    IN  IF S2 = S THEN S ELSE ReachVia(L, S2)

AcceptedRoots == {n \in DOMAIN schemas : is_schema_accepted(filter, n)}

Occurrences(L, n) == Cardinality({i \in 1..Len(L) : schema_name_of(L[i]) = n})

\* C5: with auto-include, when process_components returns Ok every defined
\* schema reachable from a filter-accepted root is the name of exactly one
\* DataType of the returned list.
C5_ClosureComplete ==
    (Returned /\ filter.auto_include_dependencies) =>
        \A n \in ReachVia(ReturnedList, AcceptedRoots) \cap DOMAIN schemas :
            Occurrences(ReturnedList, n) = 1

\* C5 witness: only Big is included; Medium is reached from Big and Small
\* only through Medium, and all three are in the returned list.
C5_Witness ==
    /\ Returned
    /\ filter = FilterConfig(Some("Big" :> AcceptAll), None, TRUE)
    /\ NamesOf(ReturnedList) = {"Big", "Medium", "Small"}
    /\ RefsOf(ReturnedList, "Big") = {"Medium"}
    /\ RefsOf(ReturnedList, "Medium") = {"Small"}

\* C7: no two DataTypes of a returned list have the same name.
C7_NamesUnique ==
    Returned =>
        \A i, j \in 1..Len(ReturnedList) :
            i /= j => schema_name_of(ReturnedList[i]) /= schema_name_of(ReturnedList[j])

\* C7 witness: a filter-accepted schema was also discovered as a dependency
\* and the run returned a list with it.
C7_Witness ==
    /\ Returned
    /\ filter.auto_include_dependencies
    /\ \E n \in Range(dependencies) :
          n \in AcceptedRoots /\ n \in NamesOf(ReturnedList)
    /\ Len(ReturnedList) >= 2

\* C10: in deny-list mode a schema excluded with all its properties is never
\* a DataType of the returned list.
C10_ExcludedNeverReturned ==
    (Returned /\ ~IsSome(filter.include) /\ IsSome(filter.exclude)) =>
        \A n \in DOMAIN Unwrap(filter.exclude) :
            Unwrap(filter.exclude)[n].kind = "AcceptAll" => n \notin NamesOf(ReturnedList)

(***************************************************************************)
(* Claims about errors of a whole run (Spec).                              *)
(***************************************************************************)
Finished == pc \in {"returned", "checked"}

\* every filter-accepted schema resolves
AcceptedRootsResolve ==
    \A n \in AcceptedRoots : IsOk(process_schema(n, schemas[n], filter, iter[n]))

\* C11: with auto-include, when every filter-accepted schema resolves, a
\* schema reached only through the dependency closure that fails to resolve
\* is skipped: process_components returns Ok with the filter-accepted types.
C11_FailingDependencySkipped ==
    (Finished /\ filter.auto_include_dependencies /\ AcceptedRootsResolve) =>
        /\ IsOk(Unwrap(result))
        /\ AcceptedRoots \subseteq NamesOf(ReturnedList)

(***************************************************************************)
(* Claims about the output destination (Spec).                             *)
(***************************************************************************)
Done == pc = "done"

\* the run failed in resolution or in the consistency check
FailedBeforeEmission ==
    /\ Done
    /\ \/ IsSome(result) /\ ~IsOk(Unwrap(result))
       \/ IsSome(missing) /\ Unwrap(missing) /= <<>>

\* C12: a step adds text to the output destination only after
\* process_components returned Ok and find_missing_schemas returned the empty
\* list, and a run that fails in resolution or in the consistency check ends
\* with an error and an empty destination.
C12_NothingWrittenBeforeChecks ==
    [][/\ (out' /= out /\ out' /= <<>>) =>
              (IsSome(result) /\ IsOk(Unwrap(result)) /\ missing = Some(<<>>))
       /\ FailedBeforeEmission' => (~IsOk(Unwrap(ret')) /\ out' = <<>>)]_vars

\* C12 witness: the output file held text, the run found a missing schema,
\* and it ended with the error and an empty file.
C12_Witness ==
    /\ Done
    /\ IsSome(missing)
    /\ Unwrap(missing) = <<"Medium">>
    /\ ~IsOk(Unwrap(ret))
    /\ out = <<>>

(***************************************************************************)
(* One whole run as a function of the iteration orders: order is the order *)
(* in which the schema map is iterated and it the order of every schema's  *)
(* property map.                                                           *)
(***************************************************************************)
RECURSIVE first_loop(_, _, _, _, _, _, _)
\* the first loop of process_components, from position i of order on
first_loop(spec, f, it, order, i, dts, deps) ==
    IF i > Len(order) THEN Ok([datatypes |-> dts, dependencies |-> deps])
    ELSE IF ~is_schema_accepted(f, order[i])
    THEN first_loop(spec, f, it, order, i + 1, dts, deps)
    ELSE LET r == process_schema(order[i], spec[order[i]], f, it[order[i]])
             d == find_dependend_schemas(order[i], spec, f, it, deps)
         IN  IF ~IsOk(r) THEN r
             ELSE IF ~f.auto_include_dependencies
             THEN first_loop(spec, f, it, order, i + 1, Append(dts, r.val), deps)
             ELSE IF ~IsOk(d) THEN d
             ELSE first_loop(spec, f, it, order, i + 1, Append(dts, r.val), d.val)

RECURSIVE second_loop(_, _, _, _, _, _)
\* the second loop of process_components, from position i of deps on
second_loop(spec, f, it, deps, i, dts) ==
    IF i > Len(deps) THEN Ok(dts)
    ELSE IF already_added(dts, deps[i]) \/ deps[i] \notin DOMAIN spec
    THEN second_loop(spec, f, it, deps, i + 1, dts)
    ELSE LET r == process_schema(deps[i], spec[deps[i]], f, it[deps[i]])
         IN  IF ~IsOk(r) THEN r
             ELSE second_loop(spec, f, it, deps, i + 1, Append(dts, r.val))

process_components(spec, f, it, order) ==
    LET l == first_loop(spec, f, it, order, 1, <<>>, <<>>)
    IN  IF ~IsOk(l) THEN l
        ELSE second_loop(spec, f, it, l.val.dependencies, 1, l.val.datatypes)

\* generate_openapi_types once the output file is created: what it returns
\* and the text it leaves in the file
generate_openapi_types(spec, f, it, order) ==
    LET structs == process_components(spec, f, it, order)
    IN  IF ~IsOk(structs) THEN [ret |-> structs, out |-> <<>>]
        ELSE IF ~missing_schemas_is_empty(find_missing_schemas(structs.val))
        THEN [ret |-> Err(<<"Found reference to missing schemas",
                            find_missing_schemas(structs.val)>>),
              out |-> <<>>]
        ELSE [ret |-> Ok(<<>>),
              out |-> write_comment_header
                        \o write_rust_code(sort_datatypes(structs.val),
                                           Some(f.struct_derives),
                                           Some(f.enum_derives))]

\* the run got past File::create and is over
RunOver == pc = "done" /\ IsSome(result)

\* C13: for a fixed schema map and filter, the emitted text and the reported
\* error are those of every other iteration order of the schema map and of
\* the property maps.
C13_ResultIndependentOfIterationOrder ==
    RunOver =>
        \A order \in Perms(DOMAIN schemas), it \in IterOrders(schemas) :
            generate_openapi_types(schemas, filter, it, order)
                = [ret |-> Unwrap(ret), out |-> out]

(***************************************************************************)
(* Claims about the emitted text (SpecEmit).                               *)
(***************************************************************************)
Emitted == pc = "emitted"

\* the struct fields or the alias target of a DataType
FieldsOf(dt) ==
    CASE dt.kind = "Struct" -> dt.fields
      [] dt.kind = "Alias" -> <<dt.info>>
      [] dt.kind = "Enum" -> <<>>

UsesList(dt, l) ==
    \E k \in 1..Len(FieldsOf(dt)) : FieldsOf(dt)[k].type_ = OneOf(l)

\* the ordered alternative lists of the union fields of the list
UnionListsUsed(dts) ==
    {l \in UNION {{FieldsOf(dts[i])[k].type_.items : k \in 1..Len(FieldsOf(dts[i]))} :
                    i \in 1..Len(dts)} :
        \E i \in 1..Len(dts) : UsesList(dts[i], l)}

\* the text holds at line p the declaration of the union of the list l: its
\* head, one case per alternative in the order of the list, and its end
UnionDeclAt(text, p, l) ==
    /\ p + Len(l) + 1 <= Len(text)
    /\ text[p] = <<"pub enum ", "_", "U", "n", "i", "o", "n">>
                    \o to_case_Pascal(join_names(l, 1, <<"O", "r">>)) \o <<" {">>
    /\ \A k \in 1..Len(l) :
          text[p + k] = <<Indent>> \o to_case_Pascal(Chars(l[k])) \o <<"(">>
                            \o to_case_Pascal(Chars(l[k])) \o <<"),">>
    /\ text[p + Len(l) + 1] = <<"}">>

UnionDeclPositions(text, l) == {p \in 1..Len(text) : UnionDeclAt(text, p, l)}

\* the first line of the declaration of a struct or an alias
DeclHead(dt) ==
    IF dt.kind = "Struct"
    THEN <<"pub struct ">> \o to_case_Pascal(Chars(dt.name)) \o <<" {">>
    ELSE <<"pub type ">> \o to_case_Pascal(Chars(dt.alias)) \o <<" = ">>
            \o wrap_type(base_type(dt.info), dt.info) \o <<";">>

LinePositions(text, line) == {p \in 1..Len(text) : text[p] = line}

\* the name a field of union type is declared with in the text
UnionNameOfField(text, dt, f) ==
    IF dt.kind = "Struct"
    THEN {n \in {generate_union_name(l) : l \in EmitUnionLists} :
            <<Indent, "pub ">> \o fix_rust_keyword(to_case_Snake(Chars(f.name)))
                \o <<": ">> \o wrap_type(n, f) \o <<",">> \in Range(text)}
    ELSE {n \in {generate_union_name(l) : l \in EmitUnionLists} :
            <<"pub type ">> \o to_case_Pascal(Chars(dt.alias)) \o <<" = ">>
                \o wrap_type(n, f) \o <<";">> \in Range(text)}

\* C14: the declaration of the union of a given ordered alternative list is
\* in the text exactly once, however many fields and alias targets use the
\* list; it stands before the first struct or alias declaration that uses
\* it; and every field that uses the list is declared with its name.
C14_UnionDeclaredOnceBeforeUse ==
    Emitted =>
        \A l \in UnionListsUsed(datatypes) :
            /\ Cardinality(UnionDeclPositions(out, l)) = 1
            /\ \A i \in 1..Len(datatypes) :
                  UsesList(datatypes[i], l) =>
                      \A p \in UnionDeclPositions(out, l),
                         q \in LinePositions(out, DeclHead(datatypes[i])) : p < q
            /\ \A i \in 1..Len(datatypes) :
                  \A k \in 1..Len(FieldsOf(datatypes[i])) :
                      FieldsOf(datatypes[i])[k].type_ = OneOf(l) =>
                          generate_union_name(l)
                              \in UnionNameOfField(out, datatypes[i], FieldsOf(datatypes[i])[k])

\* C15: two union fields have the same synthetic union type iff their
\* ordered alternative lists are the same; two different lists have two
\* declarations with different names, each with its own alternatives.
C15_UnionNameIffSameList ==
    Emitted =>
        \A l1, l2 \in UnionListsUsed(datatypes) :
            /\ (generate_union_name(l1) = generate_union_name(l2)) <=> (l1 = l2)
            /\ l1 /= l2 =>
                  /\ UnionDeclPositions(out, l1) /= {}
                  /\ UnionDeclPositions(out, l2) /= {}
                  /\ UnionDeclPositions(out, l1) \cap UnionDeclPositions(out, l2) = {}

(***************************************************************************)
(* Claims about root schemas (SpecResolve).                                *)
(***************************************************************************)
ProcessedRoot == schemas[call.args[1]]

\* the root is type: array with items: $ref X, and not marked nullable
IsArrayOfRef(node) ==
    /\ node.kind = "Typed"
    /\ node.schema_type = "array"
    /\ ~IsSome(node.properties)
    /\ ~IsSome(node.enum_items)
    /\ ~node.nullable
    /\ IsSome(node.items)
    /\ Unwrap(node.items).kind = "Ref"
    /\ Unwrap(node.items).ref_.prefix = "#/components/schemas/"

\* C16: a root schema with type: array and items: $ref X resolves to an Alias
\* whose target has type X, array_dimensions 1 and is_nullable false, and it
\* is emitted as the line pub type Name = Vec<X>; with both names written as
\* type identifiers.
C16_ArrayAlias ==
    (call.op = "process_schema" /\ IsArrayOfRef(ProcessedRoot)) =>
        /\ IsOk(call.ret[1])
        /\ call.ret[1].val.kind = "Alias"
        /\ call.ret[1].val.alias = call.args[1]
        /\ call.ret[1].val.info.type_ = Plain(Unwrap(ProcessedRoot.items).ref_.rest)
        /\ call.ret[1].val.info.array_dimensions = 1
        /\ ~call.ret[1].val.info.is_nullable
        /\ pc = "emitted" =>
              <<"pub type ">> \o to_case_Pascal(Chars(call.args[1])) \o <<" = ", "Vec<">>
                  \o to_case_Pascal(Chars(Unwrap(ProcessedRoot.items).ref_.rest))
                  \o <<">", ";">> \in Range(out)

\* C16 witness: Alert is an array of LogLevel and its alias is emitted.
C16_Witness ==
    /\ pc = "emitted"
    /\ IsArrayOfRef(ProcessedRoot)
    /\ call.args[1] = "Alert"
    /\ Unwrap(ProcessedRoot.items).ref_.rest = "LogLevel"
    /\ <<"pub type ", "A", "l", "e", "r", "t", " = ", "Vec<",
         "L", "o", "g", "L", "e", "v", "e", "l", ">", ";">> \in Range(out)

(***************************************************************************)
(* C17: the Display implementation of an enum.                             *)
(***************************************************************************)
\* the piece of an arm between the variant and the literal
ArmArrow == " => write!(f, \""

IsArm(line) == \E p \in 1..Len(line) : line[p] = ArmArrow

ArmSplit(line) == CHOOSE p \in 1..Len(line) : line[p] = ArmArrow

\* the pattern of an arm: indentation, enum name, ::, variant
ArmPattern(line) == SubSeq(line, 1, ArmSplit(line) - 1)

\* the text the arm has between the quotes of its write!
ArmLiteral(line) == SubSeq(line, ArmSplit(line) + 1, Len(line) - 1)

\* What write!(f, "<cs>") writes: the literal itself unless it holds a
\* quote, a backslash or a brace, which the Rust format string reads as the
\* end of the literal, an escape or a placeholder (None: not that text).
format_literal_output(cs) ==
    IF \E i \in 1..Len(cs) : cs[i] \in {"\"", "\\", "{", "}"} THEN None ELSE Some(cs)

\* the Display arms of the output for the variant of an item
ArmsOf(enum_name, item) ==
    {l \in Range(out) :
        /\ IsArm(l)
        /\ ArmPattern(l) = <<Indent, Indent, Indent>> \o to_case_Pascal(Chars(enum_name))
                               \o <<"::">> \o to_case_Pascal(Chars(item))}

EmittedEnums == {i \in 1..Len(datatypes) : datatypes[i].kind = "Enum"}

\* C17: for every Enum and every one of its items, the emitted Display
\* implementation has an arm for the variant named by the case-converted
\* item, and the arm of that variant writes exactly the original item.
C17_DisplayWritesOriginalItem ==
    Emitted =>
      \A i \in EmittedEnums :
        \A k \in 1..Len(datatypes[i].items) :
          LET arms == ArmsOf(datatypes[i].name, datatypes[i].items[k])
          IN  /\ arms /= {}
              /\ \A l \in arms :
                    format_literal_output(ArmLiteral(l)) = Some(Chars(datatypes[i].items[k]))

(***************************************************************************)
(* C18: anyOf.                                                             *)
(***************************************************************************)
RECURSIVE CarriesAnyOf(_)

\* anyOf is present in the node or in a node nested under its items, allOf
\* or oneOf
CarriesAnyOf(node) ==
    /\ node.kind = "Typed"
    /\ \/ IsSome(node.any_of)
       \/ IsSome(node.items) /\ CarriesAnyOf(Unwrap(node.items))
       \/ IsSome(node.all_of) /\
             \E k \in 1..Len(Unwrap(node.all_of)) : CarriesAnyOf(Unwrap(node.all_of)[k])
       \/ IsSome(node.one_of) /\
             \E k \in 1..Len(Unwrap(node.one_of)) : CarriesAnyOf(Unwrap(node.one_of)[k])

\* anyOf is present in the root or in one of its filter-accepted properties
SchemaCarriesAnyOf(schema_name, definition, f) ==
    \/ CarriesAnyOf(definition)
    \/ /\ definition.kind = "Typed"
       /\ IsSome(definition.properties)
       /\ \E p \in DOMAIN Unwrap(definition.properties) :
             /\ is_property_accepted(f, schema_name, p)
             /\ CarriesAnyOf(Unwrap(definition.properties)[p])

\* C18: whenever the root of a processed schema, one of its filter-accepted
\* properties or a node nested in them under items, allOf or oneOf has anyOf
\* present, process_schema does not return Ok, whatever other keywords the
\* node carries.
C18_AnyOfAlwaysFails ==
    (call.op = "process_schema"
        /\ SchemaCarriesAnyOf(call.args[1], schemas[call.args[1]], filter))
      => ~IsOk(call.ret[1])

(***************************************************************************)
(* C19: the shape of the root decides the DataType.                        *)
(***************************************************************************)
\* the result of an accepted property of the root that does not resolve
FailedProperties(schema_name, definition, f) ==
    {process_schema_property(schema_name, p, Unwrap(definition.properties)[p],
                             p \in Range(definition.required)) :
        p \in {q \in DOMAIN Unwrap(definition.properties) :
                  /\ is_property_accepted(f, schema_name, q)
                  /\ ~IsOk(process_schema_property(
                              schema_name, q, Unwrap(definition.properties)[q],
                              q \in Range(definition.required)))}}

\* the node carries a type and no other keyword
IsPrimitiveRoot(definition) ==
    /\ definition.kind = "Typed"
    /\ definition.schema_type /= ""
    /\ ~IsSome(definition.properties) /\ ~IsSome(definition.enum_items)
    /\ ~IsSome(definition.items) /\ ~IsSome(definition.all_of)
    /\ ~IsSome(definition.one_of) /\ ~IsSome(definition.any_of)

\* C19: process_schema maps a root by its shape. A bare reference fails with
\* the root-reference error; a typed node with properties becomes a Struct of
\* the schema's name, also when enum is present, unless one of its accepted
\* properties fails, whose error is then returned; otherwise a node with
\* enum becomes an Enum with the source items in source order; otherwise the
\* node becomes an Alias whose info is the node resolved as a field with the
\* empty name and as required, so a root with only a type is nullable
\* exactly when it says nullable.
C19_RootShapes ==
    call.op = "process_schema" =>
      LET n == call.args[1]
          d == schemas[n]
          r == call.ret[1]
      IN  IF d.kind = "Ref" THEN r = Err(<<"unexpected reference in root", n>>)
          ELSE IF IsSome(d.properties)
          THEN IF FailedProperties(n, d, filter) = {}
               THEN IsOk(r) /\ r.val.kind = "Struct" /\ r.val.name = n
               ELSE r \in FailedProperties(n, d, filter)
          ELSE IF IsSome(d.enum_items)
          THEN r = Ok(Enum(n, Unwrap(d.enum_items)))
          ELSE LET f == process_schema_property(n, "", d, TRUE)
               IN  /\ IF IsOk(f) THEN r = Ok(Alias(n, f.val)) ELSE r = f
                   /\ IsPrimitiveRoot(d) =>
                         /\ IsOk(r)
                         /\ r.val.info.name = ""
                         /\ r.val.info.type_ = Plain(d.schema_type)
                         /\ r.val.info.is_nullable = d.nullable

\* C19 witness: a root with both properties and enum became a Struct.
C19_Witness ==
    /\ call.op = "process_schema"
    /\ schemas[call.args[1]].kind = "Typed"
    /\ IsSome(schemas[call.args[1]].properties)
    /\ IsSome(schemas[call.args[1]].enum_items)
    /\ IsOk(call.ret[1])
    /\ call.ret[1].val.kind = "Struct"
    /\ Len(call.ret[1].val.fields) = 1

(***************************************************************************)
(* C20: the priority order of process_schema_property.                     *)
(***************************************************************************)
\* the first rule of the order that matches the name and the node
FirstRule(name, d) ==
    CASE \E i \in 1..Len(Chars(name)) :
            Chars(name)[i] \notin Lower \cup Upper \cup Digit \cup {"_"} -> "name"
      [] OTHER ->
         IF d.kind = "Ref" THEN "ref"
         ELSE CHOOSE k \in {"properties", "items", "allOf", "oneOf", "anyOf", "type", "any"} :
                LET present(x) ==
                        CASE x = "properties" -> IsSome(d.properties)
                          [] x = "items" -> IsSome(d.items)
                          [] x = "allOf" -> IsSome(d.all_of)
                          [] x = "oneOf" -> IsSome(d.one_of)
                          [] x = "anyOf" -> IsSome(d.any_of)
                          [] x = "type" -> d.schema_type /= ""
                          [] x = "any" -> TRUE
                    rank(x) ==
                        CASE x = "properties" -> 1 [] x = "items" -> 2 [] x = "allOf" -> 3
                          [] x = "oneOf" -> 4 [] x = "anyOf" -> 5 [] x = "type" -> 6
                          [] x = "any" -> 7
                IN  /\ present(k)
                    /\ \A x \in {"properties", "items", "allOf", "oneOf", "anyOf", "type", "any"} :
                          present(x) => rank(k) <= rank(x)

\* the outcome the matching rule gives
RuleOutcome(rule, schema_name, name, d, is_required, r) ==
    CASE rule = "name" -> r = Err(<<"has untranslatable name", schema_name, name>>)
      [] rule = "ref" ->
            r = Ok(StructField(name, Plain(d.ref_.rest), "", 0, FALSE, ""))
      [] rule = "properties" ->
            r = Err(<<"cannot be a nested object, use $ref instead", schema_name, name>>)
      [] rule = "items" ->
            LET inner == process_schema_property(schema_name, name, Unwrap(d.items),
                                                 is_required)
            IN  IF IsOk(inner)
                THEN /\ IsOk(r)
                     /\ r.val.type_ = inner.val.type_
                     /\ r.val.array_dimensions = inner.val.array_dimensions + 1
                ELSE r = inner
      [] rule = "allOf" ->
            IF Len(Unwrap(d.all_of)) > 1
            THEN r = Err(<<"expected one ref in allOf", schema_name, name>>)
            ELSE Len(Unwrap(d.all_of)) = 1 =>
                   LET inner == process_schema_property(schema_name, name,
                                                        Unwrap(d.all_of)[1], is_required)
                   IN  IF IsOk(inner)
                       THEN /\ IsOk(r)
                            /\ r.val.type_ = inner.val.type_
                            /\ r.val.type_format = inner.val.type_format
                            /\ r.val.array_dimensions = inner.val.array_dimensions
                       ELSE r = inner
      [] rule = "oneOf" ->
            LET alts == [k \in 1..Len(Unwrap(d.one_of)) |->
                            process_schema_property(schema_name, name,
                                                    Unwrap(d.one_of)[k], is_required)]
            IN  IF \A k \in 1..Len(alts) : IsOk(alts[k])
                THEN IsOk(r) /\ r.val.type_.kind = "OneOf" /\ r.val.array_dimensions = 0
                ELSE ~IsOk(r) /\ r \in Range(alts)
      [] rule = "anyOf" -> r = Err(<<"anyOf is not supported", schema_name, name>>)
      [] rule = "type" ->
            /\ IsOk(r)
            /\ r.val.type_ = Plain(d.schema_type)
            /\ r.val.type_format = d.format
            /\ r.val.array_dimensions = 0
      [] rule = "any" ->
            /\ IsOk(r)
            /\ r.val.type_ = Plain("object")
            /\ r.val.type_format = ""
            /\ r.val.array_dimensions = 0

\* C20: process_schema_property decides by the first rule that matches, in
\* the order name check, reference, properties, items, allOf, oneOf, anyOf,
\* type, any-object; a node that carries several of these keywords is
\* resolved by the earliest one alone.
C20_FirstMatchingRule ==
    call.op = "process_schema_property" =>
        RuleOutcome(FirstRule(call.args[2], call.args[3]),
                    call.args[1], call.args[2], call.args[3], call.args[4], call.ret[1])

(***************************************************************************)
(* C21: the fields of a Struct and the properties the filter accepts.      *)
(***************************************************************************)
RECURSIVE AcceptedProperties(_, _, _, _)

\* the properties of order, from position i on, that the filter accepts
AcceptedProperties(f, schema_name, order, i) ==
    IF i > Len(order) THEN <<>>
    ELSE (IF is_property_accepted(f, schema_name, order[i]) THEN <<order[i]>> ELSE <<>>)
            \o AcceptedProperties(f, schema_name, order, i + 1)

\* C21: the field names of a Struct returned by process_schema are the
\* names of the properties that is_property_accepted accepts, each once and
\* unchanged (never empty); and process_schema returns a Struct whenever
\* every accepted property resolves, whatever the rejected ones hold.
C21_FieldNamesAreAcceptedProperties ==
    (call.op = "process_schema"
        /\ schemas[call.args[1]].kind = "Typed"
        /\ IsSome(schemas[call.args[1]].properties)) =>
      LET n == call.args[1]
          accepted == AcceptedProperties(filter, n, iter[n], 1)
      IN  /\ FailedProperties(n, schemas[n], filter) = {} => ResolvedStruct
          /\ ResolvedStruct =>
                /\ Len(call.ret[1].val.fields) = Len(accepted)
                /\ \A i \in 1..Len(accepted) :
                      /\ call.ret[1].val.fields[i].name = accepted[i]
                      /\ call.ret[1].val.fields[i].name /= ""

(***************************************************************************)
(* C22: arrays.                                                            *)
(***************************************************************************)
RECURSIVE ItemsDepth(_)
RECURSIVE ItemsLeaf(_)

\* the number of items wrappers on top of the node under them
ItemsDepth(node) ==
    IF node.kind = "Typed" /\ IsSome(node.items)
    THEN 1 + ItemsDepth(Unwrap(node.items)) ELSE 0

\* the node under the items wrappers
ItemsLeaf(node) ==
    IF node.kind = "Typed" /\ IsSome(node.items) THEN ItemsLeaf(Unwrap(node.items)) ELSE node

\* a reference, or a node with a type and no other keyword
IsRefOrPrimitive(node) == node.kind = "Ref" \/ IsPrimitiveRoot(node)

\* C22: a node with items resolves to the Field resolved from items with
\* array_dimensions one higher, is_nullable the inner one or the node's
\* nullable, and descr the inner one when it is not empty and the node's
\* description otherwise; N items wrappers around a reference or a
\* primitive give array_dimensions N, and array_dimensions is never negative.
C22_ItemsAddOneDimension ==
    (call.op = "process_schema_property" /\ IsOk(call.ret[1])) =>
      LET d == call.args[3]
          r == call.ret[1].val
      IN  /\ r.array_dimensions >= 0
          /\ (d.kind = "Typed" /\ IsSome(d.items)) =>
                LET inner == process_schema_property(call.args[1], call.args[2],
                                                     Unwrap(d.items), call.args[4])
                IN  /\ IsOk(inner)
                    /\ r.name = inner.val.name
                    /\ r.type_ = inner.val.type_
                    /\ r.type_format = inner.val.type_format
                    /\ r.array_dimensions = inner.val.array_dimensions + 1
                    /\ r.is_nullable = (inner.val.is_nullable \/ d.nullable)
                    /\ r.descr = IF inner.val.descr /= "" THEN inner.val.descr
                                 ELSE d.description
          /\ IsRefOrPrimitive(ItemsLeaf(d)) => r.array_dimensions = ItemsDepth(d)

\* C22 witness: two items wrappers, the outer one described, around a
\* described primitive.
C22_Witness ==
    /\ call.op = "process_schema_property"
    /\ IsOk(call.ret[1])
    /\ ItemsDepth(call.args[3]) = 2
    /\ IsPrimitiveRoot(ItemsLeaf(call.args[3]))
    /\ call.args[3].description = "outer"
    /\ ItemsLeaf(call.args[3]).description = "inner"
    /\ call.ret[1].val.array_dimensions = 2
    /\ call.ret[1].val.descr = "inner"

(***************************************************************************)
(* C23: unions.                                                            *)
(***************************************************************************)
RECURSIVE ConcatNames(_, _)

\* the type names of the resolved alternatives, from alternative i on
ConcatNames(alts, i) ==
    IF i > Len(alts) THEN <<>> ELSE alts[i].val.type_.items \o ConcatNames(alts, i + 1)

\* the node is resolved by its oneOf
IsUnionNode(d) ==
    /\ d.kind = "Typed"
    /\ IsSome(d.one_of)
    /\ ~IsSome(d.properties) /\ ~IsSome(d.items) /\ ~IsSome(d.all_of)

\* C23: a node with oneOf, and without properties, items or allOf, resolves
\* to a union Field whose alternatives are the type names of the resolved
\* alternatives, concatenated in source order with duplicates kept, with
\* is_nullable the node's nullable and descr the node's description; an
\* alternative that fails makes the whole field fail with its error.
C23_OneOfConcatenatesAlternatives ==
    (call.op = "process_schema_property"
        /\ is_translatable(call.args[2])
        /\ IsUnionNode(call.args[3])) =>
      LET d == call.args[3]
          alts == [k \in 1..Len(Unwrap(d.one_of)) |->
                      process_schema_property(call.args[1], call.args[2],
                                              Unwrap(d.one_of)[k], call.args[4])]
          failed == {k \in 1..Len(alts) : ~IsOk(alts[k])}
      IN  IF failed = {}
          THEN /\ IsOk(call.ret[1])
               /\ call.ret[1].val.name = call.args[2]
               /\ call.ret[1].val.type_.kind = "OneOf"
               /\ call.ret[1].val.type_.items = ConcatNames(alts, 1)
               /\ call.ret[1].val.type_format = ""
               /\ call.ret[1].val.array_dimensions = 0
               /\ call.ret[1].val.is_nullable = d.nullable
               /\ call.ret[1].val.descr = d.description
          ELSE call.ret[1] = alts[CHOOSE k \in failed : \A j \in failed : k <= j]

\* C23 witness: a union of a union and a reference, with a name that occurs
\* twice in the result.
C23_Witness ==
    /\ call.op = "process_schema_property"
    /\ IsUnionNode(call.args[3])
    /\ call.args[3].nullable
    /\ IsOk(call.ret[1])
    /\ call.ret[1].val.type_.items = <<"LogLevel", "Big", "Big">>
    /\ call.ret[1].val.is_nullable

(***************************************************************************)
(* C24: the any-object placeholder.                                        *)
(***************************************************************************)
\* no type, no $ref, no properties, no items, no enum, no composition
IsEmptyNode(d) ==
    /\ d.kind = "Typed"
    /\ d.schema_type = ""
    /\ ~IsSome(d.properties) /\ ~IsSome(d.items) /\ ~IsSome(d.enum_items)
    /\ ~IsSome(d.all_of) /\ ~IsSome(d.one_of) /\ ~IsSome(d.any_of)

\* type: object and no other keyword
IsObjectNode(d) == IsPrimitiveRoot(d) /\ d.schema_type = "object"

\* the properties of a schema that refer to a schema of the map that is an
\* empty node
RefsToEmpty(n) ==
    IF schemas[n].kind = "Typed" /\ IsSome(schemas[n].properties)
    THEN {p \in DOMAIN Unwrap(schemas[n].properties) :
            LET d == Unwrap(schemas[n].properties)[p]
            IN  /\ d.kind = "Ref"
                /\ d.ref_.prefix = SchemaPrefix
                /\ d.ref_.rest \in DOMAIN schemas
                /\ IsEmptyNode(schemas[d.ref_.rest])}
    ELSE {}

\* C24: a node with no type, no $ref, no properties, no items, no enum and
\* no composition keyword resolves to a Field of type object and not to an
\* error; as a root it becomes an Alias to object, emitted as an alias of
\* serde_json::Value; a property that refers to such a schema has the
\* schema's name as its type; and a property with type object and no
\* properties resolves to the primitive object.
C24_AnyObject ==
    /\ (call.op = "process_schema_property" /\ is_translatable(call.args[2])
           /\ (IsEmptyNode(call.args[3]) \/ IsObjectNode(call.args[3]))) =>
          /\ IsOk(call.ret[1])
          /\ call.ret[1].val.type_ = Plain("object")
          /\ call.ret[1].val.array_dimensions = 0
    /\ (call.op = "process_schema" /\ IsEmptyNode(schemas[call.args[1]])) =>
          /\ IsOk(call.ret[1])
          /\ call.ret[1].val.kind = "Alias"
          /\ call.ret[1].val.alias = call.args[1]
          /\ call.ret[1].val.info.type_ = Plain("object")
          /\ Emitted =>
                LET value == Chars("serde_json::Value")
                IN  <<"pub type ">> \o to_case_Pascal(Chars(call.args[1])) \o <<" = ">>
                       \o (IF schemas[call.args[1]].nullable
                            THEN <<"Option<">> \o value \o <<">">> ELSE value)
                       \o <<";">> \in Range(out)
    /\ (call.op = "process_schema" /\ RefsToEmpty(call.args[1]) /= {}) =>
          /\ IsOk(call.ret[1])
          /\ \A i \in 1..Len(call.ret[1].val.fields) :
                PropertyOfField(i) \in RefsToEmpty(call.args[1]) =>
                   call.ret[1].val.fields[i].type_ =
                       Plain(NodeOfField(i).ref_.rest)

\* C24 witness: the schema LogLevel is an empty node, Alert refers to it,
\* and LogLevel has become an Alias to object.
C24_Witness ==
    /\ DOMAIN schemas = {"Alert", "LogLevel"}
    /\ RefsToEmpty("Alert") = {"code"}
    /\ call.op = "process_schema"
    /\ call.args[1] = "LogLevel"
    /\ IsOk(call.ret[1])
    /\ call.ret[1].val = Alias("LogLevel", StructField("", Plain("object"), "", 0, FALSE, ""))
    /\ Emitted

(***************************************************************************)
(* C25: the cases of a union declaration.                                  *)
(***************************************************************************)
\* the first line of the declaration of the union of the list l
UnionHead(l) == <<"pub enum ">> \o generate_union_name(l) \o <<" {">>

IsCase(line) == \E p \in 1..Len(line) : line[p] = "("

\* the type a case line carries: what stands between ( and ),
CaseCarried(line) ==
    LET p == CHOOSE q \in 1..Len(line) : line[q] = "("
    IN  SubSeq(line, p + 1, Len(line) - 1)

\* no other list in use has the union name of l
NameIsOwn(dts, l) ==
    \A m \in UnionListsUsed(dts) : generate_union_name(m) = generate_union_name(l) => m = l

\* C25: in the declaration of a union, the case of every alternative
\* carries the type that get_rust_type gives the alternative as a plain
\* field type: f64 for number, i32 for integer, bool for boolean,
\* serde_json::Value for object, and the type of the schema for a schema
\* name.
C25_UnionCaseCarriesMappedType ==
    Emitted =>
      \A l \in UnionListsUsed(datatypes) :
        NameIsOwn(datatypes, l) =>
          \E p \in 1..Len(out) :
            /\ out[p] = UnionHead(l)
            /\ p + Len(l) <= Len(out)
            /\ \A k \in 1..Len(l) :
                  /\ IsCase(out[p + k])
                  /\ CaseCarried(out[p + k]) = get_rust_type(l[k], "")

(***************************************************************************)
(* C26: the directive of date-time fields.                                 *)
(***************************************************************************)
IsDateTime(f) == f.type_ = Plain("string") /\ f.type_format = "date-time"

\* the declaration line of a struct field
FieldDecl(f) ==
    <<Indent, "pub ">> \o fix_rust_keyword(to_case_Snake(Chars(f.name))) \o <<": ">>
        \o wrap_type(base_type(f), f) \o <<",">>

\* the directive a date-time field needs
Iso8601Directive(f) ==
    IF f.is_nullable
    THEN <<Indent, "#[serde(with = \"time::serde::iso8601::option\", default)]">>
    ELSE <<Indent, "#[serde(with = \"time::serde::iso8601\")]">>

\* C26: every emitted struct field of type string with format date-time,
\* scalar, optional or wrapped in lists, has the ISO-8601 directive on the
\* line before its declaration, in its option form when the field is
\* optional; no such field is emitted without it.
C26_DateTimeFieldsCarryDirective ==
    Emitted =>
      \A i \in 1..Len(datatypes) :
        datatypes[i].kind = "Struct" =>
          \A k \in 1..Len(datatypes[i].fields) :
            IsDateTime(datatypes[i].fields[k]) =>
              /\ LinePositions(out, FieldDecl(datatypes[i].fields[k])) /= {}
              /\ \A p \in LinePositions(out, FieldDecl(datatypes[i].fields[k])) :
                    /\ p > 1
                    /\ out[p - 1] = Iso8601Directive(datatypes[i].fields[k])

(***************************************************************************)
(* C27: no input makes the resolution panic.                               *)
(***************************************************************************)
\* the errors process_components returns
ResolutionErrors ==
    {"has untranslatable name", "cannot be a nested object, use $ref instead",
     "expected one ref in allOf", "anyOf is not supported",
     "unexpected reference in root"}

IsOkOrDocumentedErr(r) ==
    \/ r.tag = "Ok"
    \/ r.tag = "Err" /\ r.err[1] \in ResolutionErrors

\* C27: for every schema map and filter, process_schema on a schema and
\* process_components on the map return Ok or one of the documented errors;
\* no node, such as an empty allOf or a $ref without the prefix
\* #/components/schemas/, makes them panic.
C27_NoPanic ==
    call.op = "process_schema" =>
        /\ IsOkOrDocumentedErr(call.ret[1])
        /\ \A order \in Perms(DOMAIN schemas) :
              IsOkOrDocumentedErr(process_components(schemas, filter, iter, order))

(***************************************************************************)
(* C28: the dependency walk terminates (SpecWalk).                         *)
(***************************************************************************)
WalkOver == pc = "done"

NoDuplicates(s) == \A i, j \in 1..Len(s) : s[i] = s[j] => i = j

\* the work-list has no name twice, and find_dependend_schemas was called
\* from inside itself exactly with the names of the work-list, each when it
\* was added
WalkIsOrderly == NoDuplicates(dependencies) /\ call.ret = dependencies

\* C28: the dependency walk of every schema map ends, also when schemas
\* refer to each other in a cycle or to themselves; the work-list never
\* has a name twice, and a name is recursed into only when it is first
\* added to the work-list.
C28_WalkTerminates == <>WalkOver /\ []WalkIsOrderly

\* C28 witness: a walk that is over, in which a walked root is also in the
\* work-list (a cycle led back to it) and the work-list has three names.
C28_Witness ==
    /\ WalkOver
    /\ call.op = "find_dependend_schemas"
    /\ IsSome(result) = FALSE
    /\ Len(dependencies) = 3
    /\ \E n \in Range(dependencies) : is_schema_accepted(filter, n)

(***************************************************************************)
(* C29: the primitive keywords of the Consistency Checker and the types of *)
(* the Emitter.                                                            *)
(***************************************************************************)
\* the types get_rust_type writes for the primitives
BuiltinTypes ==
    {Chars(t) : t \in {"String", "f32", "f64", "bool", "i32", "i64", "time::Date",
                       "time::OffsetDateTime", "serde_json::Value"}}

\* the declaration of field f of dt is in the text, with its type
DeclaredInText(dt, f) ==
    IF dt.kind = "Struct" THEN FieldDecl(f) \in Range(out) ELSE DeclHead(dt) \in Range(out)

\* C29: a plain type that find_missing_schemas skips as primitive (string,
\* number, boolean, integer, array, object) is written as a built-in type
\* and never as the name of a DataType; and when find_missing_schemas
\* returns the empty list, every plain type that is written as the name of
\* a DataType is the name of a DataType of the list.
C29_PrimitivesAreBuiltinTypes ==
    Emitted =>
      \A i \in 1..Len(datatypes) :
        \A k \in 1..Len(FieldsOf(datatypes[i])) :
          LET f == FieldsOf(datatypes[i])[k]
          IN  f.type_.kind = "Plain" =>
                /\ DeclaredInText(datatypes[i], f)
                /\ is_primitive_type(f.type_.items[1]) => base_type(f) \in BuiltinTypes
                /\ (find_missing_schemas(datatypes) = <<>> /\ base_type(f) \notin BuiltinTypes) =>
                      \E j \in 1..Len(datatypes) :
                          to_case_Pascal(Chars(schema_name_of(datatypes[j]))) = base_type(f)

====
